---- MODULE Spec2Model ----
(***************************************************************************)
(* Flexible Sync subscription store (realm/sync/subscriptions.cpp).        *)
(*                                                                         *)
(* The model has the host database as a committed snapshot (db, dbver)     *)
(* and a single write lock (wlock), the notification registry of the       *)
(* store (pending, outstanding, minOut), writer threads that hold a        *)
(* MutableSubscriptionSet (wr) and reader threads that hold a frozen       *)
(* SubscriptionSet (rd).  The code a thread runs while it holds the        *)
(* notifications mutex, from the lock to the unlock (or to the             *)
(* condition-variable wait, which unlocks), is one step.  notifs records   *)
(* every call of get_state_change_notification with what its future was    *)
(* resolved with; committedEver is the set of versions ever committed.     *)
(* schema_version is the entry of the store in the schema_versions         *)
(* metadata of the database, store tells whether the constructor ran.      *)
(***************************************************************************)
EXTENDS Integers, Sequences, FiniteSets, TLC

VARIABLES db, dbver, wlock, pending, outstanding, minOut, wr, rd, notifs, committedEver,
          callbacks, schema_version, store

vars == <<db, dbver, wlock, pending, outstanding, minOut, wr, rd, notifs, committedEver,
          callbacks, schema_version, store>>

\* ---------------------------------------------------------------- constants

\* SubscriptionSet::State, stored as int64 in the "state" column.
Uncommitted == 0
Error == 1
Pending == 2
Bootstrapping == 3
Complete == 4
Superseded == 5

\* Snapshot version of the database when the constructor creates version 0.
OpenDbVersion == 2

\* The schema version the store writes and accepts.
c_flx_schema_version == 2

\* ------------------------------------------------------------------- bounds

\* Spec: highest version make_mutable_copy allocates, commits after the store was
\* opened, calls of get_state_change_notification.
MaxVersion == 1
MaxCommits == 2
MaxRequests == 1

Writers == {"w1", "w2"}
Readers == {"r1", "r2"}
NoThread == "none"

\* Values a caller passes as notify_when.
NotifyWhen == {Bootstrapping, Complete}
\* Error messages a caller passes to update_state.
ErrStrs == {"", "boom"}
\* Subscriptions a caller inserts.
SampleSubs == {[id |-> 1, created_at |-> 1, updated_at |-> 1, name |-> <<"n">>, cls |-> "Dog",
                query |-> "age > 3"]}

\* ------------------------------------------------------------ the database

States == {Uncommitted, Error, Pending, Bootstrapping, Complete, Superseded}

EmptyRows == [v \in {} |-> 0]

\* Mutant of MaxPk: the minimum of the primary key column.
MaxPk_lowest(rows) == CHOOSE m \in DOMAIN rows : \A v \in DOMAIN rows : v >= m

\* Table::maximum_int over the primary key column.
MaxPk(rows) == CHOOSE m \in DOMAIN rows : \A v \in DOMAIN rows : v <= m

\* Mutants of supercede_prior_to: remove() is not run; the query is version # version_id.
supercede_prior_to_removes_nothing(rows, version_id) == rows
supercede_prior_to_removes_others(rows, version_id) ==
    [v \in {x \in DOMAIN rows : x = version_id} |-> rows[v]]

\* Query(version < version_id).remove(): the rows that are left.
supercede_prior_to(rows, version_id) == [v \in {x \in DOMAIN rows : x >= version_id} |-> rows[v]]

\* A row as create_object_with_primary_key leaves it: every column at its default.
NewRow == [state |-> Uncommitted, err |-> "", snap |-> 0, subs |-> <<>>]

PutRow(rows, v, row) == [x \in DOMAIN rows \cup {v} |-> IF x = v THEN row ELSE rows[x]]

\* ------------------------------------------------------- subscription sets

\* A Subscription has the members id, created_at, updated_at, name, cls and query; name is
\* an Optional, <<>> or <<string>>.  The embedded object that stores it has the same
\* columns, its name column is nullable.
NullString == [null |-> TRUE, str |-> ""]

\* Mutant of new_sub: the name column is set for every subscription.
new_sub_always_names(sub) ==
    [id |-> sub.id, created_at |-> sub.created_at, updated_at |-> sub.updated_at,
     name |-> [null |-> FALSE, str |-> IF sub.name = <<>> THEN "" ELSE sub.name[1]],
     cls |-> sub.cls, query |-> sub.query]

\* commit(): the embedded object created for a subscription; the name column is set only
\* when the subscription has a name.
new_sub(sub) ==
    [id |-> sub.id, created_at |-> sub.created_at, updated_at |-> sub.updated_at,
     name |-> IF sub.name # <<>> THEN [null |-> FALSE, str |-> sub.name[1]] ELSE NullString,
     cls |-> sub.cls, query |-> sub.query]

\* Subscription(parent, obj): a subscription read from its embedded object.
Subscription(obj) ==
    [id |-> obj.id, created_at |-> obj.created_at, updated_at |-> obj.updated_at,
     name |-> IF obj.name.null THEN <<>> ELSE <<obj.name.str>>,
     cls |-> obj.cls, query |-> obj.query]

\* SubscriptionSet(mgr, tr, obj) with a valid obj: load_from_database.
load_from_database(rows, ver, v) ==
    [version |-> v, state |-> rows[v].state, err |-> rows[v].err, snap |-> rows[v].snap,
     subs |-> [idx \in 1..Len(rows[v].subs) |-> Subscription(rows[v].subs[idx])],
     cur |-> ver, old |-> rows[v].state]

\* The subscriptions of the set get_by_version(v) reads from the latest snapshot.
LatestSubs(v) == load_from_database(db, dbver, v).subs

\* SubscriptionSet(mgr, version, SupersededTag).
SupersededSet(v) ==
    [version |-> v, state |-> Superseded, err |-> "", snap |-> 0, subs |-> <<>>, cur |-> 0,
     old |-> Superseded]

\* No set held by the thread.
NoSet == [version |-> -1, state |-> Uncommitted, err |-> "", snap |-> 0, subs |-> <<>>, cur |-> 0,
          old |-> Uncommitted]

\* Mutant of would_refresh: the set is never taken to be stale.
would_refresh_never(version) == FALSE

\* DB::get_version_of_latest_snapshot() compared with the set's m_cur_version.
would_refresh(version) == version < dbver

\* The comparison of two State values in the code: the enum's integer order.
StateGE(a, b) == a >= b

\* -------------------------------------------------------------- the writers

IdleWriter == [pc |-> "idle", h |-> NoSet, tr |-> EmptyRows, fin |-> <<>>, last |-> "none"]

\* Mutant of update_state_throws: the Complete case does not look at error_str.
update_state_throws_accepts_message(h, new_state, error_str) ==
    \/ new_state \in {Uncommitted, Superseded, Pending}
    \/ /\ new_state = Error
       /\ \/ h.state \notin {Bootstrapping, Pending, Uncommitted}
          \/ error_str = <<>>
    \/ /\ new_state = Bootstrapping
       /\ error_str # <<>>

\* update_state: the cases that throw std::logic_error.
update_state_throws(h, new_state, error_str) ==
    \/ new_state \in {Uncommitted, Superseded, Pending}
    \/ /\ new_state = Error
       /\ \/ h.state \notin {Bootstrapping, Pending, Uncommitted}
          \/ error_str = <<>>
    \/ /\ new_state \in {Bootstrapping, Complete}
       /\ error_str # <<>>

\* update_state: the members it assigns when it does not throw.
update_state_set(h, new_state, error_str) ==
    IF new_state = Error
    THEN [h EXCEPT !.state = new_state, !.err = error_str[1]]
    ELSE [h EXCEPT !.state = new_state]

\* Mutant of make_mutable_copy: the new primary key is the number of rows.
make_mutable_copy_counts_rows(w, src) ==
    /\ wr[w].pc = "idle"
    /\ wlock = NoThread
    /\ LET new_pk == Cardinality(DOMAIN db)
           tr == PutRow(db, new_pk, NewRow)
           set == [load_from_database(tr, dbver, new_pk) EXCEPT !.subs = src]
       IN wr' = [wr EXCEPT ![w] = [pc |-> "writing", h |-> set, tr |-> tr, fin |-> <<>>,
                                   last |-> "none"]]
    /\ wlock' = w
    /\ UNCHANGED <<db, dbver, pending, outstanding, minOut, rd, notifs, committedEver,
                   callbacks, schema_version, store>>

\* SubscriptionStore::make_mutable_copy(set): start_write, a new row at max + 1, the
\* subscriptions of set copied into the mutable set.
make_mutable_copy(w, src) ==
    /\ wr[w].pc = "idle"
    /\ wlock = NoThread
    /\ LET new_pk == MaxPk(db) + 1
           tr == PutRow(db, new_pk, NewRow)
           set == [load_from_database(tr, dbver, new_pk) EXCEPT !.subs = src]
       IN wr' = [wr EXCEPT ![w] = [pc |-> "writing", h |-> set, tr |-> tr, fin |-> <<>>,
                                   last |-> "none"]]
    /\ wlock' = w
    /\ UNCHANGED <<db, dbver, pending, outstanding, minOut, rd, notifs, committedEver,
                   callbacks, schema_version, store>>

\* SubscriptionStore::get_mutable_by_version(version_id) on a row that exists.
get_mutable_by_version(w, version_id) ==
    /\ wr[w].pc = "idle"
    /\ wlock = NoThread
    /\ version_id \in DOMAIN db
    /\ wr' = [wr EXCEPT ![w] = [pc |-> "writing", h |-> load_from_database(db, dbver, version_id),
                                tr |-> db, fin |-> <<>>, last |-> "none"]]
    /\ wlock' = w
    /\ UNCHANGED <<db, dbver, pending, outstanding, minOut, rd, notifs, committedEver,
                   callbacks, schema_version, store>>

\* The thread holds a mutable set and is between two calls on it: the set is in its
\* write transaction, or commit() has returned and the set is still in scope.
Held(w) == wr[w].pc \in {"writing", "committed"}

\* Transaction::get_transact_stage() of the set's transaction: commit_and_continue_as_read
\* has left it reading.
get_transact_stage(w) == IF wr[w].pc = "committed" THEN "transact_Reading" ELSE "transact_Writing"

\* Mutant of check_is_mutable_throws: the stage is not looked at.
check_is_mutable_throws_never(w) == FALSE

\* check_is_mutable(): throws LogicError(wrong_transact_state).
check_is_mutable_throws(w) == get_transact_stage(w) # "transact_Writing"

\* What a call that check_is_mutable() rejects leaves: the exception.
WrongStage(w) == [wr EXCEPT ![w].last = "wrong_transact_state"]

\* MutableSubscriptionSet::update_state(new_state, error_str).
update_state(w, new_state, error_str) ==
    /\ Held(w)
    /\ IF check_is_mutable_throws(w)
       THEN wr' = WrongStage(w)
       ELSE IF update_state_throws(wr[w].h, new_state, error_str)
       THEN wr' = [wr EXCEPT ![w].last = "update_state threw"]
       ELSE wr' = [wr EXCEPT ![w].h = update_state_set(wr[w].h, new_state, error_str),
                             ![w].tr = IF new_state = Complete
                                       THEN supercede_prior_to(wr[w].tr, wr[w].h.version)
                                       ELSE wr[w].tr,
                             ![w].last = "update_state"]
    /\ UNCHANGED <<db, dbver, wlock, pending, outstanding, minOut, rd, notifs,
                   committedEver, callbacks, schema_version, store>>

\* MutableSubscriptionSet::insert_sub(sub).
insert_sub(w, sub) ==
    /\ Held(w)
    /\ IF check_is_mutable_throws(w)
       THEN wr' = WrongStage(w)
       ELSE wr' = [wr EXCEPT ![w].h.subs = Append(wr[w].h.subs, sub)]
    /\ UNCHANGED <<db, dbver, wlock, pending, outstanding, minOut, rd, notifs,
                   committedEver, callbacks, schema_version, store>>

\* MutableSubscriptionSet::clear().
clear(w) ==
    /\ Held(w)
    /\ wr[w].h.subs # <<>>
    /\ IF check_is_mutable_throws(w)
       THEN wr' = WrongStage(w)
       ELSE wr' = [wr EXCEPT ![w].h.subs = <<>>]
    /\ UNCHANGED <<db, dbver, wlock, pending, outstanding, minOut, rd, notifs,
                   committedEver, callbacks, schema_version, store>>

\* MutableSubscriptionSet::erase(it); it is the position of an element.
erase(w, it) ==
    /\ Held(w)
    /\ it \in 1..Len(wr[w].h.subs)
    /\ IF check_is_mutable_throws(w)
       THEN wr' = WrongStage(w)
       ELSE wr' = [wr EXCEPT ![w].h.subs = [idx \in 1..(Len(@) - 1) |->
                                              IF idx < it THEN @[idx] ELSE @[idx + 1]],
                             ![w].last = "erase"]
    /\ UNCHANGED <<db, dbver, wlock, pending, outstanding, minOut, rd, notifs,
                   committedEver, callbacks, schema_version, store>>

\* insert_or_assign_impl(it, name, object_class_name, query_str); it is a position of
\* m_subs, or Len(m_subs) + 1 for end().  now is what system_clock::now() returns and id
\* is what ObjectId::gen() returns.  The bool of the returned pair is kept in last.
insert_or_assign_impl(w, it, name, object_class_name, query_str, now, id) ==
    IF check_is_mutable_throws(w)
    THEN WrongStage(w)
    ELSE IF it # Len(wr[w].h.subs) + 1
    THEN [wr EXCEPT ![w].h.subs[it].cls = object_class_name,
                    ![w].h.subs[it].query = query_str,
                    ![w].h.subs[it].updated_at = now,
                    ![w].last = "insert_or_assign false"]
    ELSE [wr EXCEPT ![w].h.subs = Append(@, [id |-> id, created_at |-> now, updated_at |-> now,
                                             name |-> name, cls |-> object_class_name,
                                             query |-> query_str]),
                    ![w].last = "insert_or_assign true"]

\* Subscription::name(): the empty string when the subscription has no name.
SubName(sub) == IF sub.name = <<>> THEN "" ELSE sub.name[1]

\* std::find_if(begin(), end(), pred): the first position that satisfies pred, or end();
\* hits are the positions of subs that satisfy pred.
find_if(subs, hits) ==
    IF hits # {}
    THEN CHOOSE idx \in hits : \A j \in hits : idx <= j
    ELSE Len(subs) + 1

\* insert_or_assign(name, query): the position the lookup by name finds.
find_by_name(subs, name) ==
    find_if(subs, {idx \in 1..Len(subs) : subs[idx].name # <<>> /\ SubName(subs[idx]) = name})

\* insert_or_assign(query): the position the lookup of an anonymous subscription finds.
find_by_query(subs, table_name, query_str) ==
    find_if(subs, {idx \in 1..Len(subs) : /\ SubName(subs[idx]) = ""
                                          /\ subs[idx].cls = table_name
                                          /\ subs[idx].query = query_str})

\* MutableSubscriptionSet::insert_or_assign(name, query).
insert_or_assign(w, name, table_name, query_str, now, id) ==
    /\ Held(w)
    /\ wr' = insert_or_assign_impl(w, find_by_name(wr[w].h.subs, name), <<name>>, table_name,
                                   query_str, now, id)
    /\ UNCHANGED <<db, dbver, wlock, pending, outstanding, minOut, rd, notifs,
                   committedEver, callbacks, schema_version, store>>

\* MutableSubscriptionSet::insert_or_assign(query).
insert_or_assign_query(w, table_name, query_str, now, id) ==
    /\ Held(w)
    /\ wr' = insert_or_assign_impl(w, find_by_query(wr[w].h.subs, table_name, query_str), <<>>,
                                   table_name, query_str, now, id)
    /\ UNCHANGED <<db, dbver, wlock, pending, outstanding, minOut, rd, notifs,
                   committedEver, callbacks, schema_version, store>>

\* MutableSubscriptionSet::import(src_subs): clear(), then insert_sub for every
\* subscription of the source.
import(w, src_subs) ==
    /\ Held(w)
    /\ IF check_is_mutable_throws(w)
       THEN wr' = WrongStage(w)
       ELSE wr' = [wr EXCEPT ![w].h.subs = src_subs, ![w].last = "import"]
    /\ UNCHANGED <<db, dbver, wlock, pending, outstanding, minOut, rd, notifs,
                   committedEver, callbacks, schema_version, store>>

\* The mutable set is destroyed: a transaction that was not committed rolls back.
abandon(w) ==
    /\ Held(w)
    /\ wr' = [wr EXCEPT ![w] = IdleWriter]
    /\ wlock' = IF wr[w].pc = "writing" THEN NoThread ELSE wlock
    /\ UNCHANGED <<db, dbver, pending, outstanding, minOut, rd, notifs, committedEver,
                   callbacks, schema_version, store>>

\* Mutant of commit_state: the staged state is persisted as it is.
commit_state_as_staged(h) == h.state

\* The state commit() persists: a new set that staged no state becomes Pending.
commit_state(h) == IF h.old = Uncommitted /\ h.state = Uncommitted THEN Pending ELSE h.state

\* Mutant of commit_row: the snapshot version and the list are written for every set.
commit_row_overwrites(h, row, ver) ==
    LET obj_sub_list == [idx \in 1..Len(h.subs) |-> new_sub(h.subs[idx])]
        r1 == [row EXCEPT !.snap = ver, !.subs = obj_sub_list]
        r2 == [r1 EXCEPT !.state = commit_state(h)]
    IN IF h.err # "" THEN [r2 EXCEPT !.err = h.err] ELSE r2

\* The row commit() writes for the set: the snapshot version and the subscription list
\* only for a new set, the state always, the error string only when it is not empty.
commit_row(h, row, ver) ==
    LET obj_sub_list == [idx \in 1..Len(h.subs) |-> new_sub(h.subs[idx])]
        r1 == IF h.old = Uncommitted THEN [row EXCEPT !.snap = ver, !.subs = obj_sub_list]
              ELSE row
        r2 == [r1 EXCEPT !.state = commit_state(h)]
    IN IF h.err # "" THEN [r2 EXCEPT !.err = h.err] ELSE r2

\* commit(): the test of the transaction stage, which throws std::logic_error.
commit_throws(w) == get_transact_stage(w) # "transact_Writing"

\* MutableSubscriptionSet::commit(), up to and including commit_and_continue_as_read.
commit(w) ==
    /\ Held(w)
    /\ IF commit_throws(w)
       THEN /\ wr' = [wr EXCEPT ![w].last = "not in a commitable state"]
            /\ UNCHANGED <<db, dbver, wlock, committedEver>>
       ELSE /\ LET h == wr[w].h
                   rows == PutRow(wr[w].tr, h.version,
                                  commit_row(h, wr[w].tr[h.version], dbver))
               IN /\ db' = rows
                  /\ wr' = [wr EXCEPT ![w].pc = "pn_start", ![w].h.state = commit_state(h),
                                      ![w].tr = EmptyRows, ![w].last = "none"]
                  /\ committedEver' = committedEver \cup {h.version}
            /\ dbver' = dbver + 1
            /\ wlock' = NoThread
    /\ UNCHANGED <<pending, outstanding, minOut, rd, notifs, callbacks, schema_version, store>>


\* ------------------------------------------------ the notification registry

\* A promise is fulfilled: the outcome is appended to the record of its future.
Resolve(req, outcome) == [notifs EXCEPT ![req.id].outcomes = Append(@, outcome)]

\* condition_variable::notify_one: one of the threads blocked in wait(), if any, wakes.
Waiters == {w \in Writers : wr[w].pc \in {"pn_wait", "sae_wait"}}
Woken(w) == [wr EXCEPT ![w].pc = IF wr[w].pc = "pn_wait" THEN "pn_start" ELSE "sae_start"]
notify_one == IF Waiters = {} THEN wr' = wr ELSE \E w \in Waiters : wr' = Woken(w)

\* A wait() may return without a notification; the predicate is then evaluated again.
spurious_wakeup(w) ==
    /\ w \in Waiters
    /\ wr' = Woken(w)
    /\ UNCHANGED <<db, dbver, wlock, pending, outstanding, minOut, rd, notifs,
                   committedEver, callbacks, schema_version, store>>

\* Mutant of gate_open: process_notifications does not wait for the gate.
gate_open_never_waits == TRUE

\* The predicate of m_pending_notifications_cv.wait(): no registration is under way.
gate_open == outstanding = 0

\* process_notifications: the requests the loop moves to to_finish.
pn_matches(req, my_version, new_state) ==
    \/ /\ req.version = my_version
       /\ (new_state = Error \/ StateGE(new_state, req.notify_when))
    \/ /\ new_state = Complete
       /\ req.version < my_version

\* Mutant of pn_left: the matching requests are copied to to_finish, not moved.
pn_left_keeps_all(reqs, my_version, new_state) == reqs

\* process_notifications: the list splice leaves these requests in m_pending_notifications.
pn_left(reqs, my_version, new_state) ==
    LET Miss(req) == ~pn_matches(req, my_version, new_state) IN SelectSeq(reqs, Miss)

\* Mutant of pn_outcome: every request of to_finish is given the new state.
pn_outcome_new_state(req, h) ==
    IF h.state = Error /\ req.version = h.version
    THEN [kind |-> "error", state |-> Error, msg |-> h.err]
    ELSE [kind |-> "value", state |-> h.state, msg |-> ""]

\* process_notifications: what a request of to_finish is resolved with.
pn_outcome(req, h) ==
    IF h.state = Error /\ req.version = h.version
    THEN [kind |-> "error", state |-> Error, msg |-> h.err]
    ELSE IF req.version < h.version
         THEN [kind |-> "value", state |-> Superseded, msg |-> ""]
         ELSE [kind |-> "value", state |-> h.state, msg |-> ""]

\* process_notifications: lock; the predicate is false, wait() unlocks and blocks.
pn_wait(w) ==
    /\ wr[w].pc = "pn_start"
    /\ ~gate_open
    /\ wr' = [wr EXCEPT ![w].pc = "pn_wait"]
    /\ UNCHANGED <<db, dbver, wlock, pending, outstanding, minOut, rd, notifs, committedEver,
                   callbacks, schema_version, store>>

\* process_notifications: lock; the predicate holds; the loop over
\* m_pending_notifications, the watermark, unlock.
pn_scan(w) ==
    /\ wr[w].pc = "pn_start"
    /\ gate_open
    /\ LET h == wr[w].h
           Hit(req) == pn_matches(req, h.version, h.state)
       IN /\ wr' = [wr EXCEPT ![w].pc = "pn_resolve", ![w].fin = SelectSeq(pending, Hit)]
          /\ pending' = pn_left(pending, h.version, h.state)
          /\ minOut' = IF h.state = Complete THEN h.version ELSE minOut
    /\ UNCHANGED <<db, dbver, wlock, outstanding, rd, notifs, committedEver, callbacks, schema_version, store>>

\* process_notifications: one promise of to_finish is fulfilled.
pn_resolve(w) ==
    /\ wr[w].pc = "pn_resolve"
    /\ wr[w].fin # <<>>
    /\ notifs' = Resolve(Head(wr[w].fin), pn_outcome(Head(wr[w].fin), wr[w].h))
    /\ wr' = [wr EXCEPT ![w].fin = Tail(wr[w].fin)]
    /\ UNCHANGED <<db, dbver, wlock, pending, outstanding, minOut, rd, committedEver,
                   callbacks, schema_version, store>>

\* Mutant of commit_return: the callback is called whatever the state of the set is.
commit_return_always_calls(w) ==
    /\ wr[w].pc = "pn_resolve"
    /\ wr[w].fin = <<>>
    /\ callbacks' = <<wr[w].h.version>>
    /\ wr' = [wr EXCEPT ![w] = IdleWriter]
    /\ UNCHANGED <<db, dbver, wlock, pending, outstanding, minOut, rd, notifs,
                   committedEver, schema_version, store>>

\* commit(): after process_notifications, the callback for a Pending set, then return.
\* callbacks holds the arguments m_on_new_subscription_set was called with by the commit()
\* that returned last.
commit_return(w) ==
    /\ wr[w].pc = "pn_resolve"
    /\ wr[w].fin = <<>>
    /\ callbacks' = IF wr[w].h.state = Pending
                    THEN <<wr[w].h.version>>
                    ELSE <<>>
    /\ wr' = [wr EXCEPT ![w] = IdleWriter]
    /\ UNCHANGED <<db, dbver, wlock, pending, outstanding, minOut, rd, notifs,
                   committedEver, schema_version, store>>

\* commit() returns to a caller that keeps the set it called commit() on in scope: the
\* set's transaction is in the reading stage.
commit_return_kept(w) ==
    /\ wr[w].pc = "pn_resolve"
    /\ wr[w].fin = <<>>
    /\ callbacks' = IF wr[w].h.state = Pending
                    THEN <<wr[w].h.version>>
                    ELSE <<>>
    /\ wr' = [wr EXCEPT ![w].pc = "committed", ![w].last = "commit"]
    /\ UNCHANGED <<db, dbver, wlock, pending, outstanding, minOut, rd, notifs,
                   committedEver, schema_version, store>>

\* supercede_all_except(mut_sub): supercede_prior_to in the set's write transaction.
sae_begin(w) ==
    /\ wr[w].pc = "writing"
    /\ wr' = [wr EXCEPT ![w].pc = "sae_start", ![w].last = "supercede_all_except",
                        ![w].tr = supercede_prior_to(wr[w].tr, wr[w].h.version)]
    /\ UNCHANGED <<db, dbver, wlock, pending, outstanding, minOut, rd, notifs,
                   committedEver, callbacks, schema_version, store>>

\* supercede_all_except: lock; the predicate is false, wait() unlocks and blocks.
sae_wait(w) ==
    /\ wr[w].pc = "sae_start"
    /\ ~gate_open
    /\ wr' = [wr EXCEPT ![w].pc = "sae_wait"]
    /\ UNCHANGED <<db, dbver, wlock, pending, outstanding, minOut, rd, notifs, committedEver,
                   callbacks, schema_version, store>>

\* supercede_all_except: lock; the predicate holds; the loop, the assertion, the
\* watermark, unlock.
sae_scan(w) ==
    /\ wr[w].pc = "sae_start"
    /\ gate_open
    /\ wr[w].h.version >= minOut
    /\ LET version_to_keep == wr[w].h.version
           Hit(req) == req.version # version_to_keep
           Miss(req) == req.version = version_to_keep
       IN /\ wr' = [wr EXCEPT ![w].pc = "sae_resolve", ![w].fin = SelectSeq(pending, Hit)]
          /\ pending' = SelectSeq(pending, Miss)
          /\ minOut' = version_to_keep
    /\ UNCHANGED <<db, dbver, wlock, outstanding, rd, notifs, committedEver, callbacks, schema_version, store>>

\* supercede_all_except: lock; the predicate holds; the loop; REALM_ASSERT_EX fails and
\* terminates the process: no thread takes another step.
sae_assert_fails(w) ==
    /\ wr[w].pc = "sae_start"
    /\ gate_open
    /\ wr[w].h.version < minOut
    /\ LET version_to_keep == wr[w].h.version
           Hit(req) == req.version # version_to_keep
           Miss(req) == req.version = version_to_keep
       IN /\ wr' = [x \in Writers |->
                       IF x = w
                       THEN [wr[x] EXCEPT !.pc = "aborted", !.fin = SelectSeq(pending, Hit)]
                       ELSE [wr[x] EXCEPT !.pc = "aborted"]]
          /\ pending' = SelectSeq(pending, Miss)
    /\ rd' = [x \in Readers |-> [rd[x] EXCEPT !.pc = "aborted"]]
    /\ UNCHANGED <<db, dbver, wlock, outstanding, minOut, notifs, committedEver, callbacks, schema_version, store>>

\* supercede_all_except: one promise of to_finish is fulfilled with Superseded.
sae_resolve(w) ==
    /\ wr[w].pc = "sae_resolve"
    /\ wr[w].fin # <<>>
    /\ notifs' = Resolve(Head(wr[w].fin), [kind |-> "value", state |-> Superseded, msg |-> ""])
    /\ wr' = [wr EXCEPT ![w].fin = Tail(wr[w].fin)]
    /\ UNCHANGED <<db, dbver, wlock, pending, outstanding, minOut, rd, committedEver,
                   callbacks, schema_version, store>>

\* supercede_all_except returns; the set is still in its write transaction.
sae_return(w) ==
    /\ wr[w].pc = "sae_resolve"
    /\ wr[w].fin = <<>>
    /\ wr' = [wr EXCEPT ![w].pc = "writing"]
    /\ UNCHANGED <<db, dbver, wlock, pending, outstanding, minOut, rd, notifs,
                   committedEver, callbacks, schema_version, store>>


\* -------------------------------------------------------------- the readers

\* A reader between two calls: the set it holds and what its last call threw; after and
\* out are locals of get_pending_subscriptions (db_version, subscriptions_to_recover).
IdleReader(h, res) ==
    [pc |-> "idle", h |-> h, arg |-> -1, notify_when |-> Uncommitted, res |-> res,
     after |-> 0, out |-> <<>>]

\* What a future holds, or what a call threw.
Value(state) == [kind |-> "value", state |-> state, msg |-> ""]
Failure(msg) == [kind |-> "error", state |-> Error, msg |-> msg]
KeyNotFound == [kind |-> "KeyNotFound", state |-> Uncommitted, msg |-> ""]
NoOutcome == [kind |-> "none", state |-> Uncommitted, msg |-> ""]
\* A note for the claims: the version looked up was committed earlier and is gone.
Removed == [kind |-> "removed", state |-> Uncommitted, msg |-> ""]

\* A call of get_state_change_notification returns: its future is recorded.
Returned(r, ready, outcomes) ==
    Append(notifs, [version |-> rd[r].h.version, notify_when |-> rd[r].notify_when,
                    ready |-> ready, outcomes |-> outcomes])

\* Calls of get_state_change_notification that have not returned.
InCall == {r \in Readers : rd[r].pc \in {"n_read", "n_catch", "n_guard", "n_enq"}}

\* SubscriptionStore::get_latest().
get_latest(r) ==
    /\ rd[r].pc = "idle"
    /\ rd' = [rd EXCEPT ![r] = IdleReader(load_from_database(db, dbver, MaxPk(db)), NoOutcome)]
    /\ UNCHANGED <<db, dbver, wlock, pending, outstanding, minOut, wr, notifs,
                   committedEver, callbacks, schema_version, store>>

\* get_by_version_impl(version_id, none): start_frozen and the primary key lookup; the
\* KeyNotFound handler locks the notifications mutex and is the next step.
get_by_version(r, version_id) ==
    /\ rd[r].pc = "idle"
    /\ IF version_id \in DOMAIN db
       THEN rd' = [rd EXCEPT ![r] = IdleReader(load_from_database(db, dbver, version_id),
                                               NoOutcome)]
       ELSE rd' = [rd EXCEPT ![r].pc = "gbv_catch", ![r].arg = version_id,
                             ![r].res = IF version_id \in committedEver THEN Removed
                                        ELSE NoOutcome]
    /\ UNCHANGED <<db, dbver, wlock, pending, outstanding, minOut, wr, notifs,
                   committedEver, callbacks, schema_version, store>>

\* SubscriptionSet::refresh() on a set the database has moved past.
refresh(r) ==
    /\ rd[r].h.version >= 0
    /\ would_refresh(rd[r].h.cur)
    /\ get_by_version(r, rd[r].h.version)

\* get_by_version_impl: the test of the KeyNotFound handler.
gbv_below_watermark(version_id) == version_id < minOut

\* get_by_version_impl, the handler under the mutex: below the watermark a Superseded
\* set, otherwise KeyNotFound again.
gbv_catch(r) ==
    /\ rd[r].pc = "gbv_catch"
    /\ IF gbv_below_watermark(rd[r].arg)
       THEN rd' = [rd EXCEPT ![r] = IdleReader(SupersededSet(rd[r].arg), NoOutcome)]
       ELSE rd' = [rd EXCEPT ![r].pc = "idle", ![r].res = KeyNotFound]
    /\ UNCHANGED <<db, dbver, wlock, pending, outstanding, minOut, wr, notifs, committedEver,
                   callbacks, schema_version, store>>

\* get_state_change_notification: the watermark check.
gscn_superseded(version) == minOut > version

\* get_state_change_notification(notify_when), under the mutex: a ready Superseded
\* future, or the gate is raised.
gscn_check(r, notify_when) ==
    /\ rd[r].pc = "idle"
    /\ rd[r].h.version >= 0
    /\ IF gscn_superseded(rd[r].h.version)
       THEN /\ rd' = [rd EXCEPT ![r] = IdleReader(rd[r].h, NoOutcome)]
            /\ notifs' = Append(notifs, [version |-> rd[r].h.version,
                                         notify_when |-> notify_when, ready |-> TRUE,
                                         outcomes |-> <<Value(Superseded)>>])
            /\ outstanding' = outstanding
       ELSE /\ rd' = [rd EXCEPT ![r].pc = "n_read", ![r].notify_when = notify_when,
                                ![r].arg = -1, ![r].res = NoOutcome]
            /\ notifs' = notifs
            /\ outstanding' = outstanding + 1
    /\ UNCHANGED <<db, dbver, wlock, pending, minOut, wr, committedEver, callbacks, schema_version, store>>

\* get_state_change_notification: with the current state known, a ready future or a request.
gscn_decide(r, cur_state, err_str) ==
    IF cur_state = Error
    THEN [rd EXCEPT ![r].pc = "n_guard", ![r].res = Failure(err_str)]
    ELSE IF StateGE(cur_state, rd[r].notify_when)
         THEN [rd EXCEPT ![r].pc = "n_guard", ![r].res = Value(cur_state)]
         ELSE [rd EXCEPT ![r].pc = "n_enq"]

\* get_state_change_notification: the set's state, read again from the latest snapshot
\* when the database has moved past the set.
gscn_read(r) ==
    /\ rd[r].pc = "n_read"
    /\ LET h == rd[r].h
       IN IF ~would_refresh(h.cur)
          THEN rd' = gscn_decide(r, h.state, h.err)
          ELSE IF h.version \in DOMAIN db
               THEN rd' = gscn_decide(r, db[h.version].state, db[h.version].err)
               ELSE rd' = [rd EXCEPT ![r].pc = "n_catch", ![r].arg = h.version]
    /\ UNCHANGED <<db, dbver, wlock, pending, outstanding, minOut, wr, notifs,
                   committedEver, callbacks, schema_version, store>>

\* Mutant of gscn_catch: KeyNotFound leaves the call without the scope guard.
gscn_catch_leaks(r) ==
    /\ rd[r].pc = "n_catch"
    /\ IF gbv_below_watermark(rd[r].arg)
       THEN rd' = gscn_decide(r, Superseded, "")
       ELSE rd' = [rd EXCEPT ![r].pc = "idle", ![r].res = KeyNotFound]
    /\ UNCHANGED <<db, dbver, wlock, pending, outstanding, minOut, wr, notifs, committedEver,
                   callbacks, schema_version, store>>

\* get_by_version_impl called by get_state_change_notification: Superseded or KeyNotFound,
\* which leaves get_state_change_notification through its scope guard.
gscn_catch(r) ==
    /\ rd[r].pc = "n_catch"
    /\ IF gbv_below_watermark(rd[r].arg)
       THEN rd' = gscn_decide(r, Superseded, "")
       ELSE rd' = [rd EXCEPT ![r].pc = "n_guard", ![r].res = KeyNotFound]
    /\ UNCHANGED <<db, dbver, wlock, pending, outstanding, minOut, wr, notifs, committedEver,
                   callbacks, schema_version, store>>

\* The scope guard: the gate is lowered, notify_one, unlock; the ready future is returned
\* or the exception leaves the call.
gscn_guard(r) ==
    /\ rd[r].pc = "n_guard"
    /\ outstanding' = outstanding - 1
    /\ notify_one
    /\ rd' = [rd EXCEPT ![r] = IdleReader(rd[r].h, NoOutcome)]
    /\ notifs' = Returned(r, TRUE, <<rd[r].res>>)
    /\ UNCHANGED <<db, dbver, wlock, pending, minOut, committedEver, callbacks, schema_version, store>>

\* get_state_change_notification: the request is appended; the scope guard lowers the
\* gate and notifies; unlock.
gscn_enqueue(r) ==
    /\ rd[r].pc = "n_enq"
    /\ notifs' = Returned(r, FALSE, <<>>)
    /\ pending' = Append(pending, [id |-> Len(notifs) + 1, version |-> rd[r].h.version,
                                   notify_when |-> rd[r].notify_when])
    /\ outstanding' = outstanding - 1
    /\ notify_one
    /\ rd' = [rd EXCEPT ![r] = IdleReader(rd[r].h, NoOutcome)]
    /\ UNCHANGED <<db, dbver, wlock, minOut, committedEver, callbacks, schema_version, store>>


\* ------------------------------------------------------- the specification

\* The store after its constructor ran on an empty database: version 0, Pending.
Init ==
    /\ db = (0 :> [state |-> Pending, err |-> "", snap |-> OpenDbVersion, subs |-> <<>>])
    /\ dbver = OpenDbVersion + 1
    /\ wlock = NoThread
    /\ pending = <<>>
    /\ outstanding = 0
    /\ minOut = 0
    /\ wr = [w \in Writers |-> IdleWriter]
    /\ rd = [r \in Readers |-> IdleReader(NoSet, NoOutcome)]
    /\ notifs = <<>>
    /\ committedEver = {0}
    /\ callbacks = <<>>
    /\ schema_version = <<c_flx_schema_version>>
    /\ store = "open"

\* Commits since the store was opened, and calls of get_state_change_notification.
Commits == dbver - (OpenDbVersion + 1)
Calls == Len(notifs) + Cardinality(InCall)

\* The steps of commit() after the database commit.
CommitPipeline(w) ==
    \/ pn_wait(w)
    \/ pn_scan(w)
    \/ pn_resolve(w)
    \/ commit_return(w)
    \/ spurious_wakeup(w)

\* The steps of supercede_all_except after supercede_prior_to.
SupercedePipeline(w) ==
    \/ sae_wait(w)
    \/ sae_scan(w)
    \/ sae_assert_fails(w)
    \/ sae_resolve(w)
    \/ sae_return(w)

\* The steps of a reader.
ReaderNext(r) ==
    \/ get_latest(r)
    \/ \E v \in 0..MaxVersion : get_by_version(r, v)
    \/ refresh(r)
    \/ gbv_catch(r)
    \/ \E n \in NotifyWhen : Calls < MaxRequests /\ gscn_check(r, n)
    \/ gscn_read(r)
    \/ gscn_catch(r)
    \/ gscn_guard(r)
    \/ gscn_enqueue(r)

\* A transaction as the sync client and the application make it: a set is opened, its
\* state is updated at most once with arguments update_state accepts, and it is
\* committed or abandoned.
ClientWriter(w) ==
    \/ MaxPk(db) < MaxVersion /\ make_mutable_copy(w, LatestSubs(MaxPk(db)))
    \/ \E v \in 0..MaxVersion : get_mutable_by_version(w, v)
    \/ \E s \in {Bootstrapping, Complete} : wr[w].last = "none" /\ update_state(w, s, <<>>)
    \/ wr[w].last = "none" /\ update_state(w, Error, <<"boom">>)
    \/ abandon(w)
    \/ Commits < MaxCommits /\ commit(w)
    \/ CommitPipeline(w)

\* Two writers and a reader.
Next == (\E w \in Writers : ClientWriter(w)) \/ ReaderNext("r1")

Spec == Init /\ [][Next]_vars

\* One writer, which may also call supercede_all_except once in a transaction, and a
\* reader.
ResetWriter(w) ==
    \/ ClientWriter(w)
    \/ wr[w].last # "supercede_all_except" /\ sae_begin(w)
    \/ SupercedePipeline(w)

NextSAE == ResetWriter("w1") \/ ReaderNext("r1")

SpecSAE == Init /\ [][NextSAE]_vars

\* StoreSpec: one writer and no reader; every argument of update_state and edits of the
\* subscription list.
StoreMaxVersion == 2
StoreMaxCommits == 3
MaxSubs == 1

ErrorStrArgs == {<<>>} \cup {<<m>> : m \in ErrStrs}

StoreWriter(w) ==
    \/ \E v \in DOMAIN db : MaxPk(db) < StoreMaxVersion /\ make_mutable_copy(w, LatestSubs(v))
    \/ \E v \in 0..StoreMaxVersion : get_mutable_by_version(w, v)
    \/ \E s \in States, e \in ErrorStrArgs : update_state(w, s, e)
    \/ \E sub \in SampleSubs : Len(wr[w].h.subs) < MaxSubs /\ insert_sub(w, sub)
    \/ clear(w)
    \/ abandon(w)
    \/ Commits < StoreMaxCommits /\ commit(w)
    \/ pn_scan(w)
    \/ commit_return(w)

StoreNext == StoreWriter("w1")

StoreSpec == Init /\ [][StoreNext]_vars


\* ------------------------------------------------------------------ claims

PipelinePcs == {"pn_start", "pn_wait", "pn_resolve"}

\* No registration is under way and no writer is between its database commit and the
\* end of process_notifications.
Quiescent == outstanding = 0 /\ \A w \in Writers : wr[w].pc \notin PipelinePcs

\* The requests of the pending list and of the to_finish lists that carry the promise id.
InPending(id) == {i \in 1..Len(pending) : pending[i].id = id}
InToFinish(id) == {<<w, i>> \in Writers \X (1..MaxRequests + 1) :
                      i <= Len(wr[w].fin) /\ wr[w].fin[i].id = id}

\* C1: no notification is lost. When no registration is under way and no writer is
\* between its commit and the end of process_notifications, no request of the pending
\* list is for a version whose committed state is Error or satisfies notify_when, none
\* is for a version below min_outstanding_version, and every future that was handed
\* out with a request and is no longer in the pending list has been resolved.
C1_NoLostNotification ==
    Quiescent =>
        /\ \A i \in 1..Len(pending) :
              /\ pending[i].version >= minOut
              /\ pending[i].version \in DOMAIN db =>
                    /\ db[pending[i].version].state # Error
                    /\ ~StateGE(db[pending[i].version].state, pending[i].notify_when)
        /\ \A id \in 1..Len(notifs) :
              (~notifs[id].ready /\ InPending(id) = {}) => notifs[id].outcomes # <<>>

\* A request was made while the set was short of notify_when, a later commit reached it
\* and the promise was resolved.
C1_Witness ==
    /\ Quiescent
    /\ \E id \in 1..Len(notifs) :
          /\ ~notifs[id].ready
          /\ notifs[id].outcomes = <<Value(Complete)>>
          /\ notifs[id].notify_when = Complete

\* C2: a promise is resolved only after the write transaction that caused the resolution
\* has been committed, by process_notifications and by supercede_all_except alike: the
\* thread that resolves a promise does not hold the write transaction.
C2_ResolvedAfterCommit ==
    [][\A w \in Writers :
          (notifs' # notifs /\ Len(wr'[w].fin) < Len(wr[w].fin)) => wlock # w]_vars

C4_WatermarkMonotonic == [][minOut' >= minOut]_vars

\* C5: get_by_version (and refresh) of a version that was committed earlier and has been
\* removed by supersession returns a Superseded set of that version; it never fails with
\* KeyNotFound.
C5_NeverNotFoundOnceCommitted ==
    [][\A r \in Readers :
          (rd[r].pc = "gbv_catch" /\ rd'[r].pc = "idle" /\ rd[r].res = Removed)
              => (rd'[r].res # KeyNotFound /\ rd'[r].h = SupersededSet(rd[r].arg))]_vars

\* C6: Complete and Error are terminal: the persisted state of a version that is
\* Complete or Error is never changed by a later commit.
C6_TerminalStates ==
    [][\A v \in DOMAIN db \cap DOMAIN db' :
          db[v].state \in {Complete, Error} => db'[v].state = db[v].state]_vars

\* C7: in every committed snapshot a set has a non-empty error message if and only if
\* its state is Error.
C7_ErrorIffMessage == \A v \in DOMAIN db : (db[v].err # "") <=> (db[v].state = Error)

\* C8: in every committed snapshot at most one set has state Complete.
C8_AtMostOneComplete == Cardinality({v \in DOMAIN db : db[v].state = Complete}) <= 1

\* Version 2 has just been committed as Complete after version 1 had become Complete
\* (the watermark is 1).
C8_Witness ==
    \E w \in Writers :
        /\ wr[w].pc = "pn_start"
        /\ wr[w].h.state = Complete
        /\ wr[w].h.version = 2
        /\ minOut = 1
        /\ db[2].state = Complete

\* A step of commit() up to commit_and_continue_as_read.
CommitStep(w) == wr[w].pc = "writing" /\ wr'[w].pc = "pn_start"

\* C9: a commit that brings version v to Complete leaves no row below v, keeps row v and
\* leaves every row above v as it was.
C9_CompleteRemovesLower ==
    [][\A w \in Writers :
          (CommitStep(w) /\ wr'[w].h.state = Complete) =>
              /\ \A v \in DOMAIN db' : v >= wr[w].h.version
              /\ wr[w].h.version \in DOMAIN db'
              /\ \A v \in DOMAIN db :
                    v > wr[w].h.version => (v \in DOMAIN db' /\ db'[v] = db[v])]_vars

\* Version 1 has just been committed as Complete, no version was removed before (the
\* watermark is still 0), and version 2 is still there with its subscription.
C9_Witness ==
    \E w \in Writers :
        /\ wr[w].pc = "pn_start"
        /\ wr[w].h.state = Complete
        /\ wr[w].h.version = 1
        /\ minOut = 0
        /\ DOMAIN db = {1, 2}
        /\ db[2].subs # <<>>

\* C10: no committed snapshot holds a set in state Uncommitted or Superseded.
C10_NeverUncommittedOrSuperseded ==
    \A v \in DOMAIN db : db[v].state \notin {Uncommitted, Superseded}

\* A new set was committed without a staged state, and another one with a staged state.
C10_Witness ==
    /\ \E v \in DOMAIN db : v >= 1 /\ db[v].state = Pending
    /\ \E v \in DOMAIN db : v >= 1 /\ db[v].state = Bootstrapping /\ db[v].snap > OpenDbVersion

\* The step of commit() that follows process_notifications: the callback, then the return.
ReturnStep(w) == wr[w].pc = "pn_resolve" /\ wr'[w].pc = "idle"

\* C11: on_new_pending(v) is called only after v was committed in state Pending and the
\* commit is visible, after process_notifications of the same commit(), and it is not
\* called when the committed state is not Pending: the commit step persists the state
\* the set carries and releases the write transaction, the steps of
\* process_notifications keep the set and call nothing, and only the step after
\* process_notifications calls the callback, with v, exactly when the set is Pending.
C11_CallbackAfterCommit ==
    [][/\ \A w \in Writers :
             /\ CommitStep(w) =>
                   /\ db'[wr[w].h.version].state = wr'[w].h.state
                   /\ dbver' > dbver
                   /\ wlock' # w
                   /\ callbacks' = callbacks
             /\ (wr[w].pc \in PipelinePcs /\ wr'[w].pc \in PipelinePcs) =>
                   /\ wr'[w].h = wr[w].h
                   /\ wlock' # w
             /\ ReturnStep(w) =>
                   /\ wr[w].fin = <<>>
                   /\ wr[w].h.version \in committedEver
                   /\ wlock # w
                   /\ callbacks' = IF wr[w].h.state = Pending THEN <<wr[w].h.version>>
                                   ELSE <<>>
       /\ callbacks' # callbacks => \E w \in Writers : ReturnStep(w)]_vars

\* on_new_pending(1) was called by the commit that returned last, version 1 is persisted
\* as Pending and the other writer is inside process_notifications.
C11_Witness ==
    /\ callbacks = <<1>>
    /\ 1 \in DOMAIN db
    /\ db[1].state = Pending
    /\ \E w \in Writers : wr[w].pc = "pn_resolve"

\* C12: on_new_pending(v) is called once, by the commit that creates v, and never by a
\* later commit made on v through get_mutable_by_version (version 0 is created by the
\* constructor, which calls nothing): every call is made for a set that was new.
C12_CallbackOnlyForNewSet ==
    [][\A w \in Writers :
          (ReturnStep(w) /\ callbacks' # <<>> /\ wr[w].h.version >= 1)
              => wr[w].h.old = Uncommitted]_vars

\* AllocSpec: two writers and no reader; versions are allocated, committed, completed
\* and abandoned in every interleaving.
AllocMaxVersion == 3
AllocMaxCommits == 4

AllocWriter(w) ==
    \/ MaxPk(db) < AllocMaxVersion /\ make_mutable_copy(w, LatestSubs(MaxPk(db)))
    \/ \E v \in 0..AllocMaxVersion : get_mutable_by_version(w, v)
    \/ \E s \in {Bootstrapping, Complete} : wr[w].last = "none" /\ update_state(w, s, <<>>)
    \/ abandon(w)
    \/ Commits < AllocMaxCommits /\ commit(w)
    \/ pn_scan(w)
    \/ commit_return(w)

AllocNext == \E w \in Writers : AllocWriter(w)

AllocSpec == Init /\ [][AllocNext]_vars

\* Steps of a writer: make_mutable_copy returns a new set; the set is destroyed without
\* commit.
CopyStep(w) == wr[w].pc = "idle" /\ wr'[w].pc = "writing" /\ wr'[w].h.old = Uncommitted
AbandonStep(w) == wr[w].pc = "writing" /\ wr'[w].pc = "idle"

\* C13: make_mutable_copy allocates the highest persisted version plus one while it
\* holds the write transaction alone, a version no set was ever committed with; a new
\* set is committed with a version above every version committed before; a mutable copy
\* that is abandoned leaves the rows as they were, so that the next make_mutable_copy
\* hands the same version out again.
C13_VersionsStrictlyIncreasing ==
    [][\A w \in Writers :
          /\ CopyStep(w) =>
                /\ \A v \in DOMAIN db : v < wr'[w].h.version
                /\ wr'[w].h.version - 1 \in DOMAIN db
                /\ wr'[w].h.version \notin committedEver
                /\ wlock = NoThread /\ wlock' = w
                /\ \A x \in Writers \ {w} : wr[x].pc # "writing"
          /\ (CommitStep(w) /\ wr[w].h.old = Uncommitted) =>
                /\ \A v \in committedEver : v < wr[w].h.version
                /\ wr[w].h.version \notin DOMAIN db
                /\ wr[w].h.version \in DOMAIN db'
          /\ AbandonStep(w) => (db' = db /\ committedEver' = committedEver)]_vars

\* One writer has committed the new version 2 and is still inside commit() while the other
\* writer holds a mutable copy with version 3; version 1 was completed before.
C13_Witness ==
    \E w1, w2 \in Writers :
        /\ wr[w1].pc = "pn_start" /\ wr[w1].h.version = 2 /\ wr[w1].h.old = Uncommitted
        /\ wr[w2].pc = "writing" /\ wr[w2].h.version = 3 /\ wr[w2].h.old = Uncommitted
        /\ 0 \notin DOMAIN db

\* C14: the versions returned by get_latest() never decrease, whatever commits,
\* supersessions and abandoned copies happen in between: every get_latest() returns a
\* version that is at least every version ever committed, hence at least every version
\* an earlier get_latest() returned.
C14_LatestMonotonic ==
    [][\A r \in Readers :
          get_latest(r) => \A v \in committedEver : rd'[r].h.version >= v]_vars

\* get_latest() has returned version 1 after version 0 was removed by supersession.
C14_Witness ==
    \E r \in Readers :
        /\ rd[r].pc = "idle"
        /\ rd[r].h.version = 1
        /\ rd[r].h.cur = dbver
        /\ DOMAIN db = {1}
        /\ minOut = 1

\* ------------------------------------------------------------------ queries

\* SubscriptionSet(mgr, tr, Obj{}): no row is loaded and the members keep their defaults
\* (version 0, no subscriptions).
EmptySet ==
    [version |-> 0, state |-> Uncommitted, err |-> "", snap |-> 0, subs |-> <<>>, cur |-> 0,
     old |-> Uncommitted]

\* find_all with a sort on the primary key column: the keys of S in ascending or
\* descending order.
RECURSIVE find_all(_, _)
find_all(S, ascending) ==
    IF S = {} THEN <<>>
    ELSE LET first == IF ascending
                      THEN CHOOSE m \in S : \A v \in S : m <= v
                      ELSE CHOOSE m \in S : \A v \in S : m >= v
         IN <<first>> \o find_all(S \ {first}, ascending)

\* LimitDescriptor{n}.
Limit(s, n) == IF Len(s) <= n THEN s ELSE SubSeq(s, 1, n)

\* SubscriptionStore::get_active() on the snapshot (rows, ver).
get_active(rows, ver) ==
    IF DOMAIN rows = {} THEN EmptySet
    ELSE LET res == Limit(find_all({v \in DOMAIN rows : rows[v].state = Complete}, FALSE), 1)
         IN IF res = <<>> THEN EmptySet ELSE load_from_database(rows, ver, res[1])

\* Mutant of get_active_and_latest_versions: 0 instead of -1 when no set is Complete.
get_active_and_latest_versions_zero(rows) ==
    IF DOMAIN rows = {} THEN <<0, 0>>
    ELSE LET latest_id == MaxPk(rows)
             res == Limit(find_all({v \in DOMAIN rows : rows[v].state = Complete}, FALSE), 1)
         IN IF res = <<>> THEN <<0, latest_id>> ELSE <<res[1], latest_id>>

\* SubscriptionStore::get_active_and_latest_versions() on the snapshot rows.
get_active_and_latest_versions(rows) ==
    IF DOMAIN rows = {} THEN <<0, 0>>
    ELSE LET latest_id == MaxPk(rows)
             res == Limit(find_all({v \in DOMAIN rows : rows[v].state = Complete}, FALSE), 1)
         IN IF res = <<>> THEN <<-1, latest_id>> ELSE <<res[1], latest_id>>

\* C15: in every committed snapshot get_active().version() <= get_latest().version();
\* get_active_and_latest_versions() is (-1, highest version) when no set is Complete
\* and (version of the Complete set, highest version) otherwise; get_active() is the
\* empty sentinel (version 0, no subscriptions) when no set is Complete and the
\* Complete set otherwise.
C15_ActiveAndLatest ==
    LET complete == {v \in DOMAIN db : db[v].state = Complete}
        active == get_active(db, dbver)
        latest == load_from_database(db, dbver, MaxPk(db))
        pair == get_active_and_latest_versions(db)
    IN /\ active.version <= latest.version
       /\ pair[2] \in DOMAIN db
       /\ \A v \in DOMAIN db : v <= pair[2]
       /\ pair[2] = latest.version
       /\ complete = {} => /\ pair[1] = -1
                           /\ active.version = 0
                           /\ active.subs = <<>>
                           /\ active.state # Complete
       /\ \A v \in complete : /\ pair[1] = v
                              /\ active = load_from_database(db, dbver, v)

\* Version 1 is Complete and version 2, with a subscription, is Pending:
\* get_active_and_latest_versions() is (1, 2).
C15_Witness ==
    /\ get_active_and_latest_versions(db) = <<1, 2>>
    /\ get_active(db, dbver).version = 1
    /\ db[2].state = Pending
    /\ db[2].subs # <<>>

\* The arguments of update_state the interface rejects: a target that cannot be set, a
\* message with a target other than Error, no message with the target Error.
IllegalUpdate(new_state, error_str) ==
    \/ new_state \in {Pending, Superseded, Uncommitted}
    \/ new_state # Error /\ error_str # <<>>
    \/ new_state = Error /\ error_str = <<>>

\* C16: update_state with rejected arguments throws and leaves the staged state, the
\* staged error message and the rows of the write transaction as they were: a step of a
\* writer inside its transaction either is a throw that changed nothing of the set and
\* its rows, or is not a call of update_state with rejected arguments.
C16_IllegalUpdateRejected ==
    [][\A w \in Writers :
          (wr[w].pc = "writing" /\ wr'[w].pc = "writing") =>
              \/ /\ wr'[w].last = "update_state threw"
                 /\ wr'[w].h = wr[w].h
                 /\ wr'[w].tr = wr[w].tr
              \/ \A s \in States, e \in ErrorStrArgs :
                    IllegalUpdate(s, e) => ~update_state(w, s, e)]_vars

\* update_state threw on a set that holds a staged Bootstrapping state, a subscription and
\* a transaction with the rows 1 and 2.
C16_Witness ==
    \E w \in Writers :
        /\ wr[w].pc = "writing"
        /\ wr[w].last = "update_state threw"
        /\ wr[w].h.state = Bootstrapping
        /\ wr[w].h.old = Uncommitted
        /\ DOMAIN wr[w].tr = {1, 2}

\* C17: get_state_change_notification returns a ready future and enqueues nothing when
\* the version is below min_outstanding_version (Superseded), when the state persisted
\* in the latest snapshot is Error (a failure with the persisted message), and when
\* that state has reached notify_when (the state itself); the handle's cached state
\* does not matter.
C17_ReadyFuture ==
    [][\A r \in Readers :
          /\ ((\E n \in NotifyWhen : gscn_check(r, n)) /\ rd[r].h.version < minOut) =>
                /\ Len(notifs') = Len(notifs) + 1
                /\ notifs'[Len(notifs')].ready
                /\ notifs'[Len(notifs')].outcomes = <<Value(Superseded)>>
                /\ pending' = pending
                /\ rd'[r].pc = "idle"
          /\ (gscn_read(r) /\ rd[r].h.version \in DOMAIN db) =>
                LET row == db[rd[r].h.version]
                IN /\ row.state = Error =>
                         (rd'[r].pc = "n_guard" /\ rd'[r].res = Failure(row.err))
                   /\ (row.state = Complete \/ row.state = rd[r].notify_when) =>
                         (rd'[r].pc = "n_guard" /\ rd'[r].res = Value(row.state))
          /\ gscn_guard(r) =>
                /\ Len(notifs') = Len(notifs) + 1
                /\ notifs'[Len(notifs')].ready
                /\ notifs'[Len(notifs')].outcomes = <<rd[r].res>>
                /\ pending' = pending]_vars

\* A reader whose handle still shows Pending got a ready Complete future from the state
\* in the latest snapshot; nothing was enqueued.
C17_Witness ==
    \E r \in Readers :
        /\ rd[r].pc = "idle"
        /\ rd[r].h.state = Pending
        /\ Len(notifs) = 1
        /\ notifs[1].ready
        /\ notifs[1].outcomes = <<Value(Complete)>>
        /\ pending = <<>>

\* The rank of a state in the comparison with notify_when as the interface describes it:
\* Pending and Bootstrapping are equal and below Complete.
Rank(state) == IF state = Complete THEN 2 ELSE IF state \in {Pending, Bootstrapping} THEN 1 ELSE 0

\* A set in this state has reached notify_when: Error matches any notify_when.
Reached(state, notify_when) == state = Error \/ Rank(state) >= Rank(notify_when)

\* C18: the readiness comparison ranks Pending and Bootstrapping equal and both below
\* Complete, and Error matches any notify_when: when a request is registered the future
\* is ready exactly if the persisted state has reached notify_when in this ranking (a
\* request for Bootstrapping on a Pending set is satisfied at once), and
\* process_notifications takes a request for its own version exactly if the committed
\* state has reached the request's notify_when.
C18_PendingRanksAsBootstrapping ==
    [][/\ \A r \in Readers :
             (gscn_read(r) /\ rd[r].h.version \in DOMAIN db) =>
                 (Reached(db[rd[r].h.version].state, rd[r].notify_when)
                     <=> rd'[r].pc = "n_guard")
       /\ \A w \in Writers :
             pn_scan(w) =>
                 \A i \in 1..Len(pending) :
                     pending[i].version = wr[w].h.version =>
                         (Reached(wr[w].h.state, pending[i].notify_when)
                             <=> \E j \in 1..Len(wr'[w].fin) : wr'[w].fin[j] = pending[i])]_vars

\* util::none and PendingSubscription{query_version, snapshot_version}.
NoPending == <<>>
PendingSubscription(rows, v) == <<[query_version |-> v, snapshot_version |-> rows[v].snap]>>

\* The query of get_next_pending_version: greater(pk, last), state Pending or
\* Bootstrapping, greater_equal(snapshot_version, after).
next_pending_query(rows, last_query_version, after_client_version) ==
    {v \in DOMAIN rows : /\ v > last_query_version
                         /\ (rows[v].state = Pending \/ rows[v].state = Bootstrapping)
                         /\ rows[v].snap >= after_client_version}

\* Mutant of get_next_pending_version: the sort is descending.
get_next_pending_version_descending(rows, last_query_version, after_client_version) ==
    IF DOMAIN rows = {} THEN NoPending
    ELSE LET res == find_all(next_pending_query(rows, last_query_version,
                                                after_client_version), FALSE)
         IN IF res = <<>> THEN NoPending ELSE PendingSubscription(rows, res[1])

\* SubscriptionStore::get_next_pending_version(last_query_version, after_client_version)
\* on the snapshot rows.
get_next_pending_version(rows, last_query_version, after_client_version) ==
    IF DOMAIN rows = {} THEN NoPending
    ELSE LET res == find_all(next_pending_query(rows, last_query_version,
                                                after_client_version), TRUE)
         IN IF res = <<>> THEN NoPending ELSE PendingSubscription(rows, res[1])

\* C19: get_next_pending_version(last, after) returns the smallest persisted version
\* above last whose state is Pending or Bootstrapping and whose snapshot_version is at
\* least after, with the snapshot_version of that set; it returns none exactly when
\* there is no such set; a Complete or Error set is never returned.
C19_NextPendingVersion ==
    \A last \in -1..StoreMaxVersion, after \in 0..dbver :
        LET res == get_next_pending_version(db, last, after)
            Fits(v) == /\ v \in DOMAIN db
                       /\ v > last
                       /\ db[v].state \in {Pending, Bootstrapping}
                       /\ db[v].snap >= after
        IN /\ (res = NoPending) <=> ~\E v \in DOMAIN db : Fits(v)
           /\ res # NoPending =>
                 /\ Fits(res[1].query_version)
                 /\ \A v \in DOMAIN db : Fits(v) => res[1].query_version <= v
                 /\ res[1].snapshot_version = db[res[1].query_version].snap
                 /\ db[res[1].query_version].state \notin {Complete, Error}

\* Versions 0, 1 and 2 are persisted, version 1 in state Error: after version 0 the next
\* pending version is 2, after version -1 it is 0, and with a client version above the
\* snapshot of version 0 it is 2.
C19_Witness ==
    /\ DOMAIN db = {0, 1, 2}
    /\ db[1].state = Error
    /\ db[2].state = Bootstrapping
    /\ get_next_pending_version(db, 0, 0) = PendingSubscription(db, 2)
    /\ get_next_pending_version(db, -1, 0) = PendingSubscription(db, 0)
    /\ get_next_pending_version(db, -1, db[0].snap + 1) = PendingSubscription(db, 2)
    /\ get_next_pending_version(db, 2, 0) = NoPending

\* get_pending_subscriptions(): get_active() and the locals cur_query_version (arg) and
\* db_version (after).
gps_active(r) ==
    /\ rd[r].pc = "idle"
    /\ LET active_sub == get_active(db, dbver)
       IN rd' = [rd EXCEPT ![r].pc = "gps_next",
                           ![r].arg = active_sub.version,
                           ![r].after = IF active_sub.state = Complete THEN active_sub.snap
                                        ELSE 0,
                           ![r].out = <<>>,
                           ![r].res = NoOutcome]
    /\ UNCHANGED <<db, dbver, wlock, pending, outstanding, minOut, wr, notifs,
                   committedEver, callbacks, schema_version, store>>

\* get_pending_subscriptions(): the loop condition get_next_pending_version; none ends
\* the loop and the vector is returned.
gps_next(r) ==
    /\ rd[r].pc = "gps_next"
    /\ LET next_pending == get_next_pending_version(db, rd[r].arg, rd[r].after)
       IN IF next_pending = NoPending
          THEN rd' = [rd EXCEPT ![r].pc = "idle", ![r].arg = -1, ![r].after = 0]
          ELSE rd' = [rd EXCEPT ![r].pc = "gps_get",
                                ![r].arg = next_pending[1].query_version,
                                ![r].after = next_pending[1].snapshot_version]
    /\ UNCHANGED <<db, dbver, wlock, pending, outstanding, minOut, wr, notifs,
                   committedEver, callbacks, schema_version, store>>

\* get_pending_subscriptions(): push_back(get_by_version(cur_query_version)); when the
\* row is missing the KeyNotFound handler is the next step.
gps_get(r) ==
    /\ rd[r].pc = "gps_get"
    /\ IF rd[r].arg \in DOMAIN db
       THEN rd' = [rd EXCEPT ![r].pc = "gps_next",
                             ![r].out = Append(@, load_from_database(db, dbver, rd[r].arg))]
       ELSE rd' = [rd EXCEPT ![r].pc = "gps_catch"]
    /\ UNCHANGED <<db, dbver, wlock, pending, outstanding, minOut, wr, notifs,
                   committedEver, callbacks, schema_version, store>>

\* get_pending_subscriptions(): the handler of get_by_version_impl under the mutex; a
\* Superseded set is pushed, or KeyNotFound leaves get_pending_subscriptions.
gps_catch(r) ==
    /\ rd[r].pc = "gps_catch"
    /\ IF gbv_below_watermark(rd[r].arg)
       THEN rd' = [rd EXCEPT ![r].pc = "gps_next",
                             ![r].out = Append(@, SupersededSet(rd[r].arg))]
       ELSE rd' = [rd EXCEPT ![r] = IdleReader(rd[r].h, KeyNotFound)]
    /\ UNCHANGED <<db, dbver, wlock, pending, outstanding, minOut, wr, notifs,
                   committedEver, callbacks, schema_version, store>>

\* RecoverSpec: a writer, and a reader that calls get_pending_subscriptions.
RecoverMaxVersion == 2
RecoverMaxCommits == 3

RecoverWriter(w) ==
    \/ MaxPk(db) < RecoverMaxVersion /\ make_mutable_copy(w, LatestSubs(MaxPk(db)))
    \/ \E v \in 0..RecoverMaxVersion : get_mutable_by_version(w, v)
    \/ \E s \in {Bootstrapping, Complete} : wr[w].last = "none" /\ update_state(w, s, <<>>)
    \/ wr[w].last = "none" /\ update_state(w, Error, <<"boom">>)
    \/ Commits < RecoverMaxCommits /\ commit(w)
    \/ pn_scan(w)
    \/ commit_return(w)

RecoverReader(r) ==
    \/ gps_active(r)
    \/ gps_next(r)
    \/ gps_get(r)
    \/ gps_catch(r)

RecoverNext == RecoverWriter("w1") \/ RecoverReader("r1")

RecoverSpec == Init /\ [][RecoverNext]_vars

\* C20: get_pending_subscriptions() returns persisted sets, in strictly ascending version
\* order, and every returned set carries its persisted state, also when a writer commits
\* while the call runs: no returned set is the synthetic Superseded set, whose state no
\* row ever holds.
C20_PendingSubscriptions ==
    \A r \in Readers :
        /\ \A i \in 1..Len(rd[r].out) :
              rd[r].out[i].state \in {Pending, Bootstrapping, Complete, Error}
        /\ \A i, j \in 1..Len(rd[r].out) : i < j => rd[r].out[i].version < rd[r].out[j].version

\* ------------------------------------------------- the subscription list

\* EditSpec: one writer that edits the subscription list of its mutable set with
\* insert_or_assign, erase, clear and import, and a reader.  EditNames are the names
\* passed to insert_or_assign, EditQueries the (object class, query description) pairs
\* of the queries, EditTimes the values of the clock, ObjectIds the values of
\* ObjectId::gen().
EditMaxVersion == 2
EditMaxCommits == 2
EditMaxSubs == 2
EditNames == {"n"}
EditQueries == {<<"Dog", "age > 3">>, <<"Dog", "age > 5">>}
EditTimes == {1, 2}
ObjectIds == {1, 2}

\* ObjectId::gen() returns an id that no subscription of the set has: the lowest one.
UsedId(w, id) == \E idx \in 1..Len(wr[w].h.subs) : wr[w].h.subs[idx].id = id
FreshId(w, id) == ~UsedId(w, id) /\ \A j \in ObjectIds : j < id => UsedId(w, j)

\* A transaction of the application: it makes at most one edit of the list and at most
\* one state update before it commits or is abandoned.
EditWriter(w) ==
    \/ MaxPk(db) < EditMaxVersion /\ make_mutable_copy(w, LatestSubs(MaxPk(db)))
    \/ \E v \in 0..EditMaxVersion : get_mutable_by_version(w, v)
    \/ \E name \in EditNames, q \in EditQueries, now \in EditTimes, id \in ObjectIds :
          /\ wr[w].last = "none"
          /\ find_by_name(wr[w].h.subs, name) <= EditMaxSubs
          /\ FreshId(w, id)
          /\ insert_or_assign(w, name, q[1], q[2], now, id)
    \/ \E q \in EditQueries, now \in EditTimes, id \in ObjectIds :
          /\ wr[w].last = "none"
          /\ find_by_query(wr[w].h.subs, q[1], q[2]) <= EditMaxSubs
          /\ FreshId(w, id)
          /\ insert_or_assign_query(w, q[1], q[2], now, id)
    \/ \E it \in 1..EditMaxSubs : wr[w].last = "none" /\ erase(w, it)
    \/ wr[w].last = "none" /\ clear(w)
    \/ \E r \in Readers : wr[w].last = "none" /\ rd[r].h.version >= 0 /\ import(w, rd[r].h.subs)
    \/ wr[w].last # "update_state" /\ update_state(w, Complete, <<>>)
    \/ abandon(w)
    \/ Commits < EditMaxCommits /\ commit(w)
    \/ pn_scan(w)
    \/ commit_return(w)

EditReader(r) ==
    \/ \E v \in 0..EditMaxVersion : get_by_version(r, v)
    \/ gbv_catch(r)

EditNext == EditWriter("w1") \/ EditReader("r1")

EditSpec == Init /\ [][EditNext]_vars

\* The step of import on a set in its write transaction.
ImportStep(w) == wr[w].pc = "writing" /\ wr[w].last # "import" /\ wr'[w].last = "import"

\* C21: persist-then-read round trip. make_mutable_copy(S) holds the list of S;
\* import(S) leaves the list of S in the mutable set whatever it held before; commit()
\* of a new set persists the list the set holds, so that the set read back from the
\* committed snapshot has the same subscriptions in the same order, each with the same
\* id, name, object class, query and timestamps.
C21_PersistThenRead ==
    [][\A w \in Writers :
          /\ CopyStep(w) => wr'[w].h.subs = LatestSubs(MaxPk(db))
          /\ ImportStep(w) =>
                 \E r \in Readers : rd[r].h.version >= 0 /\ wr'[w].h.subs = rd[r].h.subs
          /\ (CommitStep(w) /\ wr[w].h.old = Uncommitted) =>
                 load_from_database(db', dbver', wr[w].h.version).subs = wr[w].h.subs]_vars

\* Version 2 was committed with an anonymous and a named subscription, in this order,
\* and the second one was created and updated at different times.
C21_Witness ==
    \E w \in Writers :
        /\ wr[w].pc = "pn_start"
        /\ wr[w].h.version = 2
        /\ wr[w].h.old = Uncommitted
        /\ Len(wr[w].h.subs) = 2
        /\ wr[w].h.subs[1].name = <<>>
        /\ wr[w].h.subs[2].name # <<>>
        /\ LatestSubs(2) = wr[w].h.subs

\* ------------------------------------------------------------ to_ext_json

\* The characters of the strings of the model, as the codes std::string compares and
\* nlohmann::json escapes.
Chars ==
    "Dog" :> <<68, 111, 103>> @@
    "Cat" :> <<67, 97, 116>> @@
    "age > 3" :> <<97, 103, 101, 32, 62, 32, 51>> @@
    "age > 5" :> <<97, 103, 101, 32, 62, 32, 53>> @@
    "n == \"a\"" :> <<110, 32, 61, 61, 32, 34, 97, 34>>

\* std::string operator<: lexicographic order of the characters.
StrLess(a, b) ==
    \E k \in 1..(Len(a) + 1) :
        /\ \A j \in 1..(k - 1) : j <= Len(b) /\ a[j] = b[j]
        /\ k <= Len(b)
        /\ (k <= Len(a) => a[k] < b[k])

\* FlatMap::at(key): the map is a vector of (key, queries) kept sorted by key; a key that
\* is missing is inserted with an empty vector.
FlatMap_at(map, key) ==
    IF \E idx \in 1..Len(map) : map[idx].first = key
    THEN map
    ELSE LET lower_bound == Cardinality({idx \in 1..Len(map) : StrLess(map[idx].first, key)})
         IN [idx \in 1..(Len(map) + 1) |->
                IF idx <= lower_bound THEN map[idx]
                ELSE IF idx = lower_bound + 1 THEN [first |-> key, second |-> <<>>]
                ELSE map[idx - 1]]

\* to_ext_json, the body of the first loop: a query that is already in the vector of the
\* table is skipped, another one is put at its end.
queries_for_table(map, table_name, query_string) ==
    LET found == FlatMap_at(map, table_name)
    IN [idx \in 1..Len(found) |->
           IF found[idx].first = table_name /\ \A j \in 1..Len(found[idx].second) :
                                                  found[idx].second[j] # query_string
           THEN [first |-> table_name, second |-> Append(found[idx].second, query_string)]
           ELSE found[idx]]

\* to_ext_json: the loop over the subscriptions that fills table_to_query.
RECURSIVE table_to_query(_)
table_to_query(subs) ==
    IF subs = <<>>
    THEN <<>>
    ELSE LET sub == subs[Len(subs)]
         IN queries_for_table(table_to_query(SubSeq(subs, 1, Len(subs) - 1)), Chars[sub.cls],
                              Chars[sub.query])

\* Mutant of stable_sort: the vector is left in insertion order.
stable_sort_skipped(vec) == vec

\* std::stable_sort: equal elements keep their order.
RECURSIVE stable_sort(_)
stable_sort(vec) ==
    IF vec = <<>>
    THEN <<>>
    ELSE LET sorted == stable_sort(SubSeq(vec, 1, Len(vec) - 1))
             x == vec[Len(vec)]
             pos == Cardinality({idx \in 1..Len(sorted) : ~StrLess(x, sorted[idx])})
         IN [idx \in 1..Len(vec) |->
                IF idx <= pos THEN sorted[idx]
                ELSE IF idx = pos + 1 THEN x
                ELSE sorted[idx - 1]]

\* to_ext_json: what the loop over the queries of a table writes to obuf.
RECURSIVE obuf(_)
obuf(queries) ==
    IF queries = <<>>
    THEN <<>>
    ELSE LET before == obuf(SubSeq(queries, 1, Len(queries) - 1))
             sep == IF Len(queries) > 1 THEN <<32, 79, 82, 32>> ELSE <<>>
         IN before \o sep \o <<40>> \o queries[Len(queries)] \o <<41>>

\* nlohmann::json::dump of a string: the quotation mark and the backslash are escaped.
RECURSIVE dump_string(_)
dump_string(str) ==
    IF str = <<>>
    THEN <<>>
    ELSE LET c == Head(str)
         IN (IF c \in {34, 92} THEN <<92, c>> ELSE <<c>>) \o dump_string(Tail(str))

\* nlohmann::json::dump of an object: the members in the order of their keys.
RECURSIVE dump_members(_)
dump_members(members) ==
    IF members = <<>>
    THEN <<>>
    ELSE LET m == Head(members)
         IN <<34>> \o dump_string(m.first) \o <<34, 58, 34>> \o dump_string(m.second) \o <<34>> \o
            (IF Len(members) > 1 THEN <<44>> ELSE <<>>) \o dump_members(Tail(members))

\* SubscriptionSet::to_ext_json().
to_ext_json(subs) ==
    IF subs = <<>>
    THEN <<123, 125>>
    ELSE LET map == table_to_query(subs)
             output_json == [idx \in 1..Len(map) |->
                                [first |-> map[idx].first,
                                 second |-> obuf(stable_sort(map[idx].second))]]
         IN <<123>> \o dump_members(output_json) \o <<125>>

\* JsonSpec: a writer that builds lists of named and anonymous subscriptions on two
\* object classes.
JsonMaxSubs == 3
JsonNames == {"n", "m"}
JsonQueries == {<<"Dog", "age > 3">>, <<"Dog", "age > 5">>, <<"Cat", "age > 3">>,
                <<"Cat", "n == \"a\"">>}
JsonIds == {1, 2, 3}

JsonFreshId(w, id) == ~UsedId(w, id) /\ \A j \in JsonIds : j < id => UsedId(w, j)

JsonWriter(w) ==
    \/ MaxPk(db) < MaxVersion /\ make_mutable_copy(w, LatestSubs(MaxPk(db)))
    \/ \E name \in JsonNames, q \in JsonQueries, id \in JsonIds :
          /\ find_by_name(wr[w].h.subs, name) <= JsonMaxSubs
          /\ JsonFreshId(w, id)
          /\ insert_or_assign(w, name, q[1], q[2], 1, id)
    \/ \E q \in JsonQueries, id \in JsonIds :
          /\ find_by_query(wr[w].h.subs, q[1], q[2]) <= JsonMaxSubs
          /\ JsonFreshId(w, id)
          /\ insert_or_assign_query(w, q[1], q[2], 1, id)
    \/ \E it \in 1..JsonMaxSubs : erase(w, it)
    \/ abandon(w)

JsonNext == JsonWriter("w1")

JsonSpec == Init /\ [][JsonNext]_vars

\* The (object class, query string) pairs of a list, and the lists that hold the
\* elements of a list in another order.
Pairs(subs) == {<<subs[idx].cls, subs[idx].query>> : idx \in 1..Len(subs)}
Reorderings(subs) ==
    {[idx \in 1..Len(subs) |-> subs[p[idx]]] :
        p \in {f \in [1..Len(subs) -> 1..Len(subs)] :
                  \A a, b \in 1..Len(subs) : a # b => f[a] # f[b]}}

\* The strictly ascending sequence of the queries of a class.
SortedQueries(subs, cls) ==
    LET qs == {Chars[p[2]] : p \in {x \in Pairs(subs) : x[1] = cls}}
    IN CHOOSE s \in [1..Cardinality(qs) -> qs] :
           \A a, b \in 1..Cardinality(qs) : a < b => StrLess(s[a], s[b])

\* The text of a class that has the queries of the sequence.
RECURSIVE OrJoined(_)
OrJoined(queries) ==
    IF Len(queries) = 1
    THEN <<40>> \o queries[1] \o <<41>>
    ELSE <<40>> \o queries[1] \o <<41, 32, 79, 82, 32>> \o OrJoined(Tail(queries))

\* C22: to_ext_json of a list depends only on the set of (object class, query string)
\* pairs: every permutation of the list and the list with one of its elements repeated
\* give the same text; the empty list gives {}; a list on one class gives the distinct
\* queries of the class in ascending order, each in parentheses, joined by " OR ".
C22_ExtJsonCanonical ==
    \A w \in Writers :
        LET subs == wr[w].h.subs
            json == to_ext_json(subs)
        IN /\ subs = <<>> => json = <<123, 125>>
           /\ \A other \in Reorderings(subs) : to_ext_json(other) = json
           /\ \A idx \in 1..Len(subs) : to_ext_json(Append(subs, subs[idx])) = json
           /\ \A cls \in {"Dog", "Cat"} :
                  (subs # <<>> /\ \A idx \in 1..Len(subs) : subs[idx].cls = cls) =>
                      json = <<123, 34>> \o Chars[cls] \o <<34, 58, 34>> \o
                             dump_string(OrJoined(SortedQueries(subs, cls))) \o <<34, 125>>

\* A list of three subscriptions on Dog, two with the same pair, whose queries were
\* inserted in descending order.
C22_Witness ==
    \E w \in Writers :
        LET subs == wr[w].h.subs
        IN /\ Len(subs) = 3
           /\ subs[1].cls = "Dog" /\ subs[1].query = "age > 5"
           /\ subs[2].cls = "Dog" /\ subs[2].query = "age > 3"
           /\ subs[3].cls = "Dog" /\ subs[3].query = "age > 5"

\* ------------------------------------------------------ opening the store

\* Mutant of schema_mismatch: every persisted schema version is accepted.
schema_mismatch_never(persisted) == FALSE

\* The constructor's test of a schema version that is present.
schema_mismatch(persisted) == persisted # c_flx_schema_version

\* The constructor threw "Invalid schema version": no store exists.
open_fails ==
    /\ store' = "failed"
    /\ UNCHANGED <<db, dbver, wlock, pending, outstanding, minOut, wr, rd, notifs,
                   committedEver, callbacks, schema_version>>

\* SubscriptionStore::SubscriptionStore(db, on_new_subscription_set): the schema version
\* is written in a first transaction when it is absent and checked otherwise; version 0
\* is created in a second transaction when the table of subscription sets is empty.
\* The notification registry of the new store is empty.
SubscriptionStore ==
    /\ store = "closed"
    /\ IF schema_version # <<>> /\ schema_mismatch(schema_version[1])
       THEN open_fails
       ELSE LET tr_version == IF schema_version = <<>> THEN dbver + 1 ELSE dbver
                zero_sub == [state |-> Pending, err |-> "", snap |-> tr_version, subs |-> <<>>]
            IN /\ schema_version' = <<c_flx_schema_version>>
               /\ IF db = EmptyRows
                  THEN /\ db' = (0 :> zero_sub)
                       /\ dbver' = tr_version + 1
                       /\ committedEver' = committedEver \cup {0}
                  ELSE /\ db' = db
                       /\ dbver' = tr_version
                       /\ committedEver' = committedEver
               /\ store' = "open"
               /\ pending' = <<>>
               /\ outstanding' = 0
               /\ minOut' = 0
               /\ UNCHANGED <<wlock, wr, rd, notifs, callbacks>>

\* The store is destroyed while no thread uses it; the database stays as it is.
close ==
    /\ store = "open"
    /\ \A w \in Writers : wr[w].pc = "idle"
    /\ pending = <<>>
    /\ store' = "closed"
    /\ UNCHANGED <<db, dbver, wlock, pending, outstanding, minOut, wr, rd, notifs,
                   committedEver, callbacks, schema_version>>

\* OpenSpec: the store is opened on a database that was never used by a store, on one
\* whose schema version was written by another version of the store, or on one that a
\* store was closed on; a writer works while the store is open.
OpenMaxVersion == 2
OpenMaxDbVersion == 6
OtherSchemaVersions == {1, 3}

InitClosed ==
    /\ store = "closed"
    /\ \/ schema_version = <<>> /\ db = EmptyRows /\ dbver = 1 /\ committedEver = {}
       \/ /\ schema_version \in {<<c_flx_schema_version>>} \cup
                                {<<v>> : v \in OtherSchemaVersions}
          /\ \/ db = EmptyRows /\ committedEver = {} /\ dbver = OpenDbVersion
             \/ /\ db = (0 :> [state |-> Pending, err |-> "", snap |-> OpenDbVersion,
                               subs |-> <<>>])
                /\ committedEver = {0}
                /\ dbver = OpenDbVersion + 1
    /\ wlock = NoThread
    /\ pending = <<>>
    /\ outstanding = 0
    /\ minOut = 0
    /\ wr = [w \in Writers |-> IdleWriter]
    /\ rd = [r \in Readers |-> IdleReader(NoSet, NoOutcome)]
    /\ notifs = <<>>
    /\ callbacks = <<>>

OpenWriter(w) ==
    \/ store = "open" /\ MaxPk(db) < OpenMaxVersion /\ make_mutable_copy(w, LatestSubs(MaxPk(db)))
    \/ \E v \in 0..OpenMaxVersion : store = "open" /\ get_mutable_by_version(w, v)
    \/ \E s \in {Bootstrapping, Complete} : wr[w].last = "none" /\ update_state(w, s, <<>>)
    \/ \E sub \in SampleSubs : Len(wr[w].h.subs) < MaxSubs /\ insert_sub(w, sub)
    \/ abandon(w)
    \/ dbver < OpenMaxDbVersion /\ commit(w)
    \/ pn_scan(w)
    \/ commit_return(w)

OpenNext == SubscriptionStore \/ close \/ OpenWriter("w1")

OpenSpec == InitClosed /\ [][OpenNext]_vars

\* A step of the constructor.
OpenStep == store = "closed" /\ store' # "closed"

\* C23: the constructor, run on a database whose schema version is absent or the
\* compiled one, opens the store; when the database holds no subscription set it then
\* holds exactly version 0, Pending, without subscriptions and without error message, and
\* when it holds sets they are left as they are; on_new_pending is not called.  Run on a
\* database with another schema version it fails and leaves the database as it is.
C23_OpenSeedsVersionZero ==
    [][OpenStep =>
          IF schema_version # <<>> /\ schema_version[1] # c_flx_schema_version
          THEN /\ store' = "failed"
               /\ UNCHANGED <<db, dbver, schema_version, callbacks>>
          ELSE /\ store' = "open"
               /\ callbacks' = callbacks
               /\ IF db = EmptyRows
                  THEN /\ DOMAIN db' = {0}
                       /\ db'[0].state = Pending
                       /\ db'[0].subs = <<>>
                       /\ db'[0].err = ""
                  ELSE db' = db]_vars

\* The store was opened again on a database that holds versions 1 and 2: version 1 is
\* Complete and the watermark of the new store is 0.
C23_Witness ==
    /\ store = "open"
    /\ DOMAIN db = {1, 2}
    /\ minOut = 0
    /\ db[1].state = Complete
    /\ \A w \in Writers : wr[w].pc = "idle"

\* ------------------------------------------------ calls after the commit

\* StageSpec: a writer that keeps its set after commit() and goes on calling it, and a
\* reader that asks for notifications.
StageMaxVersion == 1
StageMaxCommits == 2

\* A transaction makes at most one call that edits the list or updates the state before
\* it commits; a committed set takes every call.
OneCall(w) == wr[w].last = "none" \/ wr[w].pc = "committed"

StageWriter(w) ==
    \/ MaxPk(db) < StageMaxVersion /\ make_mutable_copy(w, LatestSubs(MaxPk(db)))
    \/ \E v \in 0..StageMaxVersion : get_mutable_by_version(w, v)
    \/ \E s \in {Bootstrapping, Complete} : OneCall(w) /\ update_state(w, s, <<>>)
    \/ OneCall(w) /\ update_state(w, Error, <<"boom">>)
    \/ \E sub \in SampleSubs : OneCall(w) /\ Len(wr[w].h.subs) < MaxSubs /\ insert_sub(w, sub)
    \/ \E q \in EditQueries : OneCall(w) /\ insert_or_assign(w, "n", q[1], q[2], 2, 2)
    \/ \E q \in EditQueries :
          /\ OneCall(w)
          /\ find_by_query(wr[w].h.subs, q[1], q[2]) <= MaxSubs
          /\ insert_or_assign_query(w, q[1], q[2], 2, 2)
    \/ \E it \in 1..MaxSubs : OneCall(w) /\ erase(w, it)
    \/ OneCall(w) /\ clear(w)
    \/ \E r \in Readers : OneCall(w) /\ rd[r].h.version >= 0 /\ import(w, rd[r].h.subs)
    \/ abandon(w)
    \/ (Commits < StageMaxCommits \/ wr[w].pc = "committed") /\ commit(w)
    \/ pn_wait(w)
    \/ pn_scan(w)
    \/ pn_resolve(w)
    \/ commit_return_kept(w)
    \/ spurious_wakeup(w)

StageReader(r) ==
    \/ get_latest(r)
    \/ \E n \in NotifyWhen : Calls < MaxRequests /\ gscn_check(r, n)
    \/ gscn_read(r)
    \/ gscn_catch(r)
    \/ gscn_guard(r)
    \/ gscn_enqueue(r)

StageNext == StageWriter("w1") \/ StageReader("r1")

StageSpec == Init /\ [][StageNext]_vars

\* A call on a set whose commit() has returned: the set stays in scope.
CallAfterCommit(w) == wr[w].pc = "committed" /\ wr'[w].pc = "committed" /\ wr'[w] # wr[w]

\* C24: after commit() has returned, the set's transaction is not in the writing stage:
\* commit() and every mutating call on the set throw, the set keeps its state and its
\* subscriptions, no row is written, no snapshot is made, no request leaves the pending
\* list, no future is resolved and on_new_pending is not called.
C24_WrongStageFails ==
    [][\A w \in Writers :
          CallAfterCommit(w) =>
              /\ wr'[w].last \in {"wrong_transact_state", "not in a commitable state"}
              /\ wr'[w].h = wr[w].h
              /\ UNCHANGED <<db, dbver, pending, minOut, notifs, callbacks, committedEver>>]_vars

\* A mutating call on a committed set has thrown while a request that the set's state
\* does not satisfy is in the pending list.
C24_Witness ==
    \E w \in Writers :
        /\ wr[w].pc = "committed"
        /\ wr[w].last = "wrong_transact_state"
        /\ wr[w].h.subs # <<>>
        /\ pending # <<>>

\* ------------------------------------------- several pending notifications

\* NotifySpec: one writer and one reader that registers several requests on several
\* versions.
NotifyMaxVersion == 1
NotifyMaxCommits == 2
NotifyMaxRequests == 3

NotifyWriter(w) ==
    \/ MaxPk(db) < NotifyMaxVersion /\ make_mutable_copy(w, LatestSubs(MaxPk(db)))
    \/ \E v \in 0..NotifyMaxVersion : get_mutable_by_version(w, v)
    \/ \E s \in {Bootstrapping, Complete} : wr[w].last = "none" /\ update_state(w, s, <<>>)
    \/ wr[w].last = "none" /\ update_state(w, Error, <<"boom">>)
    \/ abandon(w)
    \/ Commits < NotifyMaxCommits /\ commit(w)
    \/ pn_wait(w)
    \/ pn_scan(w)
    \/ pn_resolve(w)
    \/ commit_return(w)
    \/ spurious_wakeup(w)

NotifyReader(r) ==
    \/ get_latest(r)
    \/ \E n \in NotifyWhen : Calls < NotifyMaxRequests /\ gscn_check(r, n)
    \/ gscn_read(r)
    \/ gscn_catch(r)
    \/ gscn_guard(r)
    \/ gscn_enqueue(r)

NotifyNext == NotifyWriter("w1") \/ NotifyReader("r1")

NotifySpec == Init /\ [][NotifyNext]_vars

\* The steps of process_notifications: the loop under the mutex, and one promise of
\* to_finish.
ScanStep(w) == wr[w].pc = "pn_start" /\ wr'[w].pc = "pn_resolve"
FulfilStep(w) == wr[w].pc = "pn_resolve" /\ wr'[w].pc = "pn_resolve" /\ wr'[w].fin # wr[w].fin

\* The requests process_notifications is to remove for a commit of version m with state s.
Due(req, m, s) ==
    \/ req.version = m /\ (s = Error \/ s >= req.notify_when)
    \/ s = Complete /\ req.version < m

\* The requests of a list that satisfy, or do not satisfy, Due.
DueOf(reqs, m, s, due) ==
    LET Keep(req) == Due(req, m, s) = due IN SelectSeq(reqs, Keep)

\* C25: process_notifications run for a commit of version m with the new state s takes
\* from the pending list exactly the requests for m that s satisfies (s is Error or
\* s >= notify_when) and, when s is Complete, the requests for versions below m; the other
\* requests stay in their order.  A request taken is resolved with the failure carrying
\* the set's error message when s is Error and the request is for m, with Superseded when
\* it is for a version below m, with s otherwise.  So a future that succeeds holds
\* Superseded or a state that is at least its notify_when.
C25_ProcessNotifications ==
    /\ [][\A w \in Writers :
             LET m == wr[w].h.version
                 s == wr[w].h.state
             IN /\ ScanStep(w) =>
                       /\ pending' = DueOf(pending, m, s, FALSE)
                       /\ wr'[w].fin = DueOf(pending, m, s, TRUE)
                /\ FulfilStep(w) =>
                       LET req == Head(wr[w].fin)
                       IN /\ wr'[w].fin = Tail(wr[w].fin)
                          /\ pending' = pending
                          /\ notifs'[req.id].outcomes =
                                 <<IF s = Error /\ req.version = m THEN Failure(wr[w].h.err)
                                   ELSE IF req.version < m THEN Value(Superseded)
                                   ELSE Value(s)>>]_vars
    /\ [](\A id \in 1..Len(notifs) :
             \A k \in 1..Len(notifs[id].outcomes) :
                 notifs[id].outcomes[k].kind = "value" =>
                     \/ notifs[id].outcomes[k].state = Superseded
                     \/ notifs[id].outcomes[k].state >= notifs[id].notify_when)

\* Three requests were registered; a commit with state Bootstrapping has taken the second
\* one, which asked for Bootstrapping, from between two requests that ask for Complete.
C25_Witness ==
    \E w \in Writers :
        /\ wr[w].pc = "pn_resolve"
        /\ wr[w].h.state = Bootstrapping
        /\ Len(wr[w].fin) = 1
        /\ Len(pending) = 2
        /\ wr[w].fin[1].id = 2
        /\ pending[1].id = 1
        /\ pending[2].id = 3

\* The steps of supercede_all_except: the loop under the mutex, and one promise of
\* to_finish.
SaeScanStep(w) == wr[w].pc = "sae_start" /\ wr'[w].pc \notin {"sae_start", "sae_wait"}
SaeFulfilStep(w) ==
    wr[w].pc = "sae_resolve" /\ wr'[w].pc = "sae_resolve" /\ wr'[w].fin # wr[w].fin

\* C26: supercede_all_except(set) deletes the rows below set.version in the set's write
\* transaction; under the mutex its assertion set.version >= min_outstanding_version
\* holds, it takes from the pending list the requests for other versions, leaves the
\* requests for set.version in their order and sets min_outstanding_version to
\* set.version; every request taken is resolved with Superseded.
C26_SupercedeAllExcept ==
    [][\A w \in Writers :
          LET keep == wr[w].h.version
              Other(req) == req.version # keep
              Same(req) == req.version = keep
          IN /\ (wr[w].pc = "writing" /\ wr'[w].pc = "sae_start") =>
                    /\ DOMAIN wr'[w].tr = {v \in DOMAIN wr[w].tr : v >= keep}
                    /\ db' = db
             /\ SaeScanStep(w) =>
                    /\ keep >= minOut
                    /\ pending' = SelectSeq(pending, Same)
                    /\ wr'[w].fin = SelectSeq(pending, Other)
                    /\ minOut' = keep
             /\ SaeFulfilStep(w) =>
                    notifs'[Head(wr[w].fin).id].outcomes = <<Value(Superseded)>>]_vars

\* ------------------------------------------------------ two readers at the gate

\* GateSpec: one writer that commits and calls supercede_all_except, and two readers
\* whose calls of get_state_change_notification overlap.
GateMaxRequests == 2
GateMaxVersion == 1
GateMaxCommits == 1

GateWriter(w) ==
    \/ MaxPk(db) < GateMaxVersion /\ make_mutable_copy(w, LatestSubs(MaxPk(db)))
    \/ \E v \in 0..GateMaxVersion : get_mutable_by_version(w, v)
    \/ \E s \in {Bootstrapping, Complete} : wr[w].last = "none" /\ update_state(w, s, <<>>)
    \/ wr[w].last = "none" /\ update_state(w, Error, <<"boom">>)
    \/ wr[w].last # "supercede_all_except" /\ sae_begin(w)
    \/ abandon(w)
    \/ Commits < GateMaxCommits /\ commit(w)
    \/ CommitPipeline(w)
    \/ SupercedePipeline(w)

GateReader(r) ==
    \/ get_latest(r)
    \/ \E n \in NotifyWhen : Calls < GateMaxRequests /\ gscn_check(r, n)
    \/ gscn_read(r)
    \/ gscn_catch(r)
    \/ gscn_guard(r)
    \/ gscn_enqueue(r)

GateNext == GateWriter("w1") \/ (\E r \in Readers : GateReader(r))

GateSpec == Init /\ [][GateNext]_vars

\* C27: outstanding_requests is never negative and is the number of calls of
\* get_state_change_notification that have passed the watermark check and have not
\* returned, whether they go on to return a ready future, to enqueue a request or to throw;
\* the loops of process_notifications and of supercede_all_except over the pending list,
\* each a critical section of the notifications mutex, run only when it is 0.
C27_OutstandingGate ==
    /\ [](outstanding >= 0 /\ outstanding = Cardinality(InCall))
    /\ [][\A w \in Writers : (ScanStep(w) \/ SaeScanStep(w)) => outstanding = 0]_vars

\* Two calls are under way, one of them is about to leave with KeyNotFound, and the
\* writer waits at the gate.
C27_Witness ==
    /\ outstanding = 2
    /\ \E r \in Readers : rd[r].pc = "n_guard" /\ rd[r].res = KeyNotFound
    /\ \E w \in Writers : wr[w].pc \in {"pn_wait", "sae_wait"}

\* ------------------------------------------------------- insert_or_assign

\* AssignSpec: a writer that builds the list of a mutable set with insert_or_assign only.
AssignMaxSubs == 3
AssignNames == {"", "n"}

AssignWriter(w) ==
    \/ MaxPk(db) < MaxVersion /\ make_mutable_copy(w, LatestSubs(MaxPk(db)))
    \/ \E name \in AssignNames, q \in EditQueries, now \in EditTimes, id \in JsonIds :
          /\ find_by_name(wr[w].h.subs, name) <= AssignMaxSubs
          /\ JsonFreshId(w, id)
          /\ insert_or_assign(w, name, q[1], q[2], now, id)
    \/ \E q \in EditQueries, now \in EditTimes, id \in JsonIds :
          /\ find_by_query(wr[w].h.subs, q[1], q[2]) <= AssignMaxSubs
          /\ JsonFreshId(w, id)
          /\ insert_or_assign_query(w, q[1], q[2], now, id)
    \/ abandon(w)

AssignNext == AssignWriter("w1")

AssignSpec == Init /\ [][AssignNext]_vars

\* No two subscriptions of the list have the same name and no two anonymous ones have
\* the same object class and query.
NoDuplicates(subs) ==
    \A a, b \in 1..Len(subs) :
        a # b =>
            /\ (subs[a].name # <<>> /\ subs[b].name # <<>>) => subs[a].name # subs[b].name
            /\ (subs[a].name = <<>> /\ subs[b].name = <<>>) =>
                   <<subs[a].cls, subs[a].query>> # <<subs[b].cls, subs[b].query>>

\* The lookup by name finds named subscriptions only, the lookup of an anonymous
\* subscription finds anonymous ones only.
LookupsKeepApart(subs) ==
    /\ \A name \in AssignNames :
           find_by_name(subs, name) <= Len(subs) => subs[find_by_name(subs, name)].name # <<>>
    /\ \A q \in EditQueries :
           find_by_query(subs, q[1], q[2]) <= Len(subs) =>
               subs[find_by_query(subs, q[1], q[2])].name = <<>>

\* A call of insert_or_assign on a set in its write transaction.
AssignStep(w) == wr[w].pc = "writing" /\ wr'[w].pc = "writing" /\ wr'[w] # wr[w]

\* What insert_or_assign leaves of the list: with inserted = false the list with one
\* element whose object class, query and updated_at may differ; with inserted = true the
\* list with one element put at its end.
AssignedInPlace(before, after) ==
    /\ Len(after) = Len(before)
    /\ \A idx \in 1..Len(before) :
           /\ after[idx].id = before[idx].id
           /\ after[idx].created_at = before[idx].created_at
           /\ after[idx].name = before[idx].name
    /\ Cardinality({idx \in 1..Len(before) : after[idx] # before[idx]}) <= 1
Appended(before, after) ==
    /\ Len(after) = Len(before) + 1
    /\ SubSeq(after, 1, Len(before)) = before

\* C28: a list built with insert_or_assign alone never holds two subscriptions with the
\* same name nor two anonymous ones with the same object class and query; a call that
\* finds a match overwrites it in place and returns inserted = false, a call that finds none
\* appends one subscription and returns inserted = true; a lookup by name never finds
\* an anonymous subscription and an anonymous lookup never finds a named one.
C28_InsertOrAssign ==
    /\ [](\A w \in Writers : NoDuplicates(wr[w].h.subs) /\ LookupsKeepApart(wr[w].h.subs))
    /\ [][\A w \in Writers :
             AssignStep(w) =>
                 /\ wr'[w].last = "insert_or_assign false" =>
                        AssignedInPlace(wr[w].h.subs, wr'[w].h.subs)
                 /\ wr'[w].last = "insert_or_assign true" =>
                        Appended(wr[w].h.subs, wr'[w].h.subs)]_vars

\* ------------------------------------------------------------- progress

\* LiveSpec: two writers that commit and a reader that asks for a notification.  A thread
\* that can take a step of commit() after the database commit, or a step of
\* get_state_change_notification after the watermark check, eventually takes it; a
\* thread blocked in wait() takes no step until it is notified, and a wait() need not
\* return without a notification.
LiveMaxCommits == 2

LiveWriter(w) ==
    \/ MaxPk(db) < MaxVersion /\ make_mutable_copy(w, LatestSubs(MaxPk(db)))
    \/ \E v \in 0..MaxVersion : get_mutable_by_version(w, v)
    \/ wr[w].last = "none" /\ update_state(w, Complete, <<>>)
    \/ abandon(w)
    \/ Commits < LiveMaxCommits /\ commit(w)
    \/ CommitPipeline(w)

LiveReader(r) ==
    \/ get_latest(r)
    \/ \E n \in NotifyWhen : Calls < MaxRequests /\ gscn_check(r, n)
    \/ gscn_read(r)
    \/ gscn_catch(r)
    \/ gscn_guard(r)
    \/ gscn_enqueue(r)

LiveNext == (\E w \in Writers : LiveWriter(w)) \/ LiveReader("r1")

\* The steps a running thread takes inside commit() and inside
\* get_state_change_notification.
InsideCommit(w) == pn_wait(w) \/ pn_scan(w) \/ pn_resolve(w) \/ commit_return(w)
InsideNotification(r) == gscn_read(r) \/ gscn_catch(r) \/ gscn_guard(r) \/ gscn_enqueue(r)

LiveSpec ==
    /\ Init
    /\ [][LiveNext]_vars
    /\ \A w \in Writers : WF_vars(InsideCommit(w))
    /\ WF_vars(InsideNotification("r1"))

\* C29: a commit() that has committed its database transaction finishes
\* process_notifications and returns, given that every call of
\* get_state_change_notification that is under way completes.
C29_CommitReturns ==
    \A w \in Writers : (wr[w].pc \in PipelinePcs) ~> (wr[w].pc = "idle")

\* ------------------------------------------- commit of a committed version

\* The version of the set of writer w has a row in the latest snapshot: the set was
\* made by get_mutable_by_version, not by make_mutable_copy.
OnCommittedVersion(w) == wr[w].h.version \in DOMAIN db

\* C30: frame of a commit through get_mutable_by_version(v). The commit changes at most
\* the persisted state and error message of v and, when the state is Complete, deletes
\* lower versions: the persisted subscription list and snapshot_version of v stay as
\* they were whatever edits the mutable set's list received, no row is added, every
\* other row is unchanged or is a lower version deleted on Complete, and the set that
\* commit() returns, read at the committed snapshot, shows the persisted list.
C30_CommitOfCommittedVersion ==
    [][\A w \in Writers :
          (CommitStep(w) /\ OnCommittedVersion(w)) =>
              LET v == wr[w].h.version
              IN /\ v \in DOMAIN db'
                 /\ db'[v] = [db[v] EXCEPT !.state = db'[v].state, !.err = db'[v].err]
                 /\ db'[v].subs = db[v].subs
                 /\ db'[v].snap = db[v].snap
                 /\ DOMAIN db' \subseteq DOMAIN db
                 /\ \A u \in DOMAIN db \ {v} :
                        \/ u \in DOMAIN db' /\ db'[u] = db[u]
                        \/ u \notin DOMAIN db' /\ u < v /\ db'[v].state = Complete
                 /\ load_from_database(db', dbver', v).subs = LatestSubs(v)]_vars

\* A set made by get_mutable_by_version(1) was committed after an edit of its list and
\* update_state(Complete): the list it holds differs from the persisted one, which holds
\* a subscription, and version 0 was deleted.
C30_Witness ==
    \E w \in Writers :
        /\ wr[w].pc = "pn_start"
        /\ wr[w].h.version = 1
        /\ wr[w].h.old \notin {Uncommitted, Complete}
        /\ wr[w].h.state = Complete
        /\ 0 \notin DOMAIN db
        /\ LatestSubs(1) # <<>>
        /\ wr[w].h.subs # LatestSubs(1)

\* ------------------------------------------------- reports of Superseded

\* The versions a future reported as Superseded: a ready future of
\* get_state_change_notification or a promise fulfilled by process_notifications or
\* supercede_all_except.
ReportedSuperseded ==
    {notifs[i].version : i \in {j \in 1..Len(notifs) :
         \E k \in 1..Len(notifs[j].outcomes) : notifs[j].outcomes[k] = Value(Superseded)}}

\* C31: a version reported as Superseded is really superseded. From the report on the
\* version is below min_outstanding_version and has no row in the latest committed
\* snapshot, so that get_by_version of it returns the Superseded set; no version that
\* can still be read as a live set is reported Superseded.
C31_SupersededIsFinal ==
    \A v \in ReportedSuperseded : v < minOut /\ v \notin DOMAIN db

====
